---- MODULE Spec2Model ----
(***************************************************************************)
(* OpenEdu MCP server: the dispatch layer of src/main.py (module globals,  *)
(* initialize_services, the content tool handlers, get_server_status)      *)
(* over the cache, the rate limiter and the usage tracker that the tools   *)
(* share.  The services and the tools are not part of the sources at hand; *)
(* they are modelled from the system overview (cache layer, rate limiter,  *)
(* usage tracker) and from what the tests show of the clients' parameter   *)
(* validation.                                                             *)
(***************************************************************************)
EXTENDS Integers, Sequences, FiniteSets, TLC

VARIABLES
    config,                 \* main.py globals: TRUE when set, FALSE when None
    cache_service,
    rate_limiting_service,
    usage_service,
    openlibrary_tool,
    wikipedia_tool,
    dictionary_tool,
    arxiv_tool,
    now,                    \* the clock the services read
    cache,                  \* cache layer: key -> [value, expires]
    windows,                \* rate limiter: api -> [window, count]
    admitted,               \* api -> window -> requests that went upstream
    stored,                 \* (api, operation, parameters) -> the response last
                            \* fetched for it and when: [value, at]
    usage_log,              \* usage tracker: the log, oldest record first
    last,                   \* what the last call of a handler did and gave
    stream,                 \* the SSE generator: its position, its counter and
                            \* the events it has yielded
    closed,                 \* the resources held by the globals that were closed
    process                 \* main(): where it is and what it has done

\* the globals and the state of the objects they hold
objects == <<config, cache_service, rate_limiting_service, usage_service,
             openlibrary_tool, wikipedia_tool, dictionary_tool, arxiv_tool, closed>>
\* the state of the main module
globals == <<objects, process>>
services == <<now, cache, windows, admitted, stored, usage_log>>
vars == <<globals, services, last, stream>>

----------------------------------------------------------------------------
(* Bounds of the model *)

MaxTime == 3        \* the clock runs 0..MaxTime
WindowLen == 2      \* length of a rate-limit window, in clock ticks
CacheTTL == 2       \* time to live of a cache entry, in clock ticks
RateBudget == 1     \* requests per window and API
MaxLog == 3         \* records the usage log holds at most
OldRecords == 1     \* records an earlier run of the server left in the log

----------------------------------------------------------------------------
(* Python values *)

None == "None"                       \* Python's None

\* truth value of an Optional[str] argument held as an atom
Truthy(s) == s # None /\ s # ""

IsSpace(c) == c \in {" ", "\t", "\n"}

RECURSIVE lstrip(_)
lstrip(s) == IF s = <<>> THEN <<>>
             ELSE IF IsSpace(Head(s)) THEN lstrip(Tail(s)) ELSE s

RECURSIVE rstrip(_)
rstrip(s) == IF s = <<>> THEN <<>>
             ELSE IF IsSpace(s[Len(s)]) THEN rstrip(SubSeq(s, 1, Len(s) - 1)) ELSE s

\* str.strip(): a string is the sequence of its characters
strip(s) == rstrip(lstrip(s))

IsPrefix(s, t) == Len(s) <= Len(t) /\ SubSeq(t, 1, Len(s)) = s

IsSuffix(s, t) == Len(s) <= Len(t) /\ SubSeq(t, Len(t) - Len(s) + 1, Len(t)) = s

----------------------------------------------------------------------------
(* exceptions.py: an exception is its class and its constructor arguments;  *)
(* a message is the sequence of the pieces it is formatted from.            *)

ServerErrors == {"OpenEduMCPError", "ToolError", "APIError", "CacheError",
                 "RateLimitError", "ValidationError"}

\* classes that `except Exception` catches; asyncio.CancelledError derives
\* from BaseException only
ExceptionClasses == ServerErrors \cup {"ValueError"}

OpenEduMCPError(message) ==
    [type |-> "OpenEduMCPError", message |-> message, api_name |-> None,
     code |-> None, field |-> None]

ToolError(message, tool_name) ==
    [type |-> "ToolError", message |-> message, api_name |-> tool_name,
     code |-> None, field |-> None]

APIError(message, api_name, status_code) ==
    [type |-> "APIError", message |-> message, api_name |-> api_name,
     code |-> status_code, field |-> None]

RateLimitError(message, api_name, retry_after) ==
    [type |-> "RateLimitError", message |-> message, api_name |-> api_name,
     code |-> retry_after, field |-> None]

\* the operation is kept in the field slot
CacheError(message, operation) ==
    [type |-> "CacheError", message |-> message, api_name |-> None,
     code |-> None, field |-> operation]

ValidationError(message, field) ==
    [type |-> "ValidationError", message |-> message, api_name |-> None,
     code |-> None, field |-> field]

ValueError(message) ==
    [type |-> "ValueError", message |-> message, api_name |-> None,
     code |-> None, field |-> None]

CancelledError ==
    [type |-> "CancelledError", message |-> <<>>, api_name |-> None,
     code |-> None, field |-> None]

NoError ==
    [type |-> None, message |-> <<>>, api_name |-> None,
     code |-> None, field |-> None]

\* str(e), per the __str__ of e's class
Str(e) ==
    CASE e.type = "APIError" ->
            <<"API Error (", e.api_name, "): ">> \o e.message
            \o (IF e.code # None THEN <<" (Status: ", e.code, ")">> ELSE <<>>)
      [] e.type = "RateLimitError" ->
            <<"Rate Limit Error (", e.api_name, "): ">> \o e.message
            \o (IF e.code # None THEN <<" (Retry after: ", e.code, "s)">> ELSE <<>>)
      [] e.type = "CacheError" ->
            <<"Cache Error: ">> \o e.message
            \o (IF e.field # None THEN <<" (Operation: ", e.field, ")">> ELSE <<>>)
      [] e.type = "ValidationError" ->
            <<"Validation Error: ">> \o e.message
            \o (IF e.field # None THEN <<" (Field: ", e.field, ")">> ELSE <<>>)
      [] OTHER -> e.message

\* mutant: the handler lets its tool's exception through as it is
HandlerExcept_reraise(prefix, e) == e

\* what a handler's `except Exception as e` makes of e: the classes it
\* catches are re-raised as the base class with str(e) in the message
HandlerExcept(prefix, e) ==
    IF e.type \in ExceptionClasses
    THEN OpenEduMCPError(<<prefix, ": ">> \o Str(e))
    ELSE e

----------------------------------------------------------------------------
(* Cache layer: key/value store with per-entry expiration *)

APIs == {"open_library", "wikipedia", "dictionary", "arxiv"}

Miss == None

\* fingerprint of (API name, operation, parameters)
\* mutant: the operation is left out of the fingerprint
cache_key_without_operation(api_name, operation, params) == <<api_name, params>>

generate_cache_key(api_name, operation, params) == <<api_name, operation, params>>

\* mutant: an entry is still served at its expiration time
cache_get_at_expiry(key) ==
    IF key \in DOMAIN cache /\ now <= cache[key].expires
    THEN cache[key].value
    ELSE Miss

cache_get(key) ==
    IF key \in DOMAIN cache /\ now < cache[key].expires
    THEN cache[key].value
    ELSE Miss

\* mutant: the time to live is dropped, the entry expires as it is stored
cache_set_without_ttl(key, value, ttl, at) ==
    [k \in DOMAIN cache \cup {key} |->
        IF k = key THEN [value |-> value, expires |-> at, stored |-> at]
        ELSE cache[k]]

cache_set(key, value, ttl, at) ==
    [k \in DOMAIN cache \cup {key} |->
        IF k = key THEN [value |-> value, expires |-> at + ttl, stored |-> at]
        ELSE cache[k]]

----------------------------------------------------------------------------
(* Rate limiter: fixed-window request counter per upstream API *)

window_of(t) == t \div WindowLen

Windows == 0 .. window_of(MaxTime)

FreshWindows == [a \in APIs |-> [window |-> 0, count |-> 0]]

NoneAdmitted == [a \in APIs |-> [w \in Windows |-> 0]]

\* requests counted for api in the window of time t
window_count(api, t) ==
    IF windows[api].window = window_of(t) THEN windows[api].count ELSE 0

\* mutant: one request more than the budget is let through
check_rate_limit_off_by_one(api, t) == window_count(api, t) <= RateBudget

check_rate_limit(api, t) == window_count(api, t) < RateBudget

\* mutant: one counter for all APIs
record_request_shared(api, t) ==
    [a \in APIs |-> [window |-> window_of(t), count |-> window_count(a, t) + 1]]

\* the counter after one more request of api at time t
record_request(api, t) ==
    [windows EXCEPT ![api] =
        [window |-> window_of(t), count |-> window_count(api, t) + 1]]

\* the start of the window after the one of time t
next_window(t) == (window_of(t) + 1) * WindowLen

----------------------------------------------------------------------------
(* Usage tracker: log of tool invocations *)

\* mutant: the log keeps the latest record only
record_usage_latest_only(api, method, ok) ==
    <<[api |-> api, method |-> method, ok |-> ok]>>

record_usage(api, method, ok) ==
    Append(usage_log, [api |-> api, method |-> method, ok |-> ok])

----------------------------------------------------------------------------
(* The record of a handler call *)

\* the structured report of get_server_status; other handlers have none
NoReport == [status |-> None, keys |-> {}, message |-> <<>>, cache_healthy |-> FALSE]

NoCall ==
    [handler |-> None, args |-> None, tool_calls |-> <<>>, outcome |-> None,
     cause |-> NoError, exc |-> NoError, value |-> None, hit |-> FALSE,
     stale |-> FALSE, upstream |-> 0, repeat |-> FALSE, report |-> NoReport, result |-> <<>>]

\* the handler returned value; tool_calls are the calls it made to its tool,
\* hit and stale say whether its cache lookup was served and whether it
\* found an entry past its time to live, upstream counts the requests sent
Return(h, args, tool_calls, value, hit, stale, upstream) ==
    /\ last' = [handler |-> h, args |-> args, tool_calls |-> tool_calls,
                outcome |-> "return", cause |-> NoError, exc |-> NoError,
                value |-> value,
                hit |-> hit, stale |-> stale, upstream |-> upstream,
                repeat |-> (last.handler = h /\ last.args = args),
                report |-> NoReport, result |-> <<>>]
    /\ UNCHANGED stream

\* the handler raised e; cause is the exception its tool call raised, if
\* that is where e comes from
Raise(h, args, tool_calls, cause, e, stale, upstream) ==
    /\ last' = [handler |-> h, args |-> args, tool_calls |-> tool_calls,
                outcome |-> "raise", cause |-> cause, exc |-> e, value |-> None,
                hit |-> FALSE, stale |-> stale, upstream |-> upstream,
                repeat |-> (last.handler = h /\ last.args = args),
                report |-> NoReport, result |-> <<>>]
    /\ UNCHANGED stream

\* get_server_status returned report
ReturnStatus(h, args, report) ==
    /\ last' = [handler |-> h, args |-> args, tool_calls |-> <<>>,
                outcome |-> "return", cause |-> NoError, exc |-> NoError,
                value |-> report.status,
                hit |-> FALSE, stale |-> FALSE, upstream |-> 0,
                repeat |-> (last.handler = h /\ last.args = args),
                report |-> report, result |-> <<>>]
    /\ UNCHANGED stream

\* a function of the models or tools returned result
ReturnResult(h, args, result) ==
    /\ last' = [handler |-> h, args |-> args, tool_calls |-> <<>>,
                outcome |-> "return", cause |-> NoError, exc |-> NoError,
                value |-> None,
                hit |-> FALSE, stale |-> FALSE, upstream |-> 0,
                repeat |-> (last.handler = h /\ last.args = args),
                report |-> NoReport, result |-> result]
    /\ UNCHANGED stream

\* a handler's own raise, before it calls its tool
Reject(h, args, message) ==
    /\ Raise(h, args, <<>>, NoError, OpenEduMCPError(message), FALSE, 0)
    /\ UNCHANGED <<globals, services>>

----------------------------------------------------------------------------
(* The Open Library client's ISBN validation, as its tests show it.  An    *)
(* ISBN is the sequence of its characters.                                 *)

Digits == {"0", "1", "2", "3", "4", "5", "6", "7", "8", "9"}

IsbnInputs ==
    { <<"1", "2", "3", "4", "5", "6", "7", "8", "9", "0">>,
      <<"1", "2", "3", "4", "5", "6", "7", "8", "9", "X">>,
      <<"9", "7", "8", "1", "2", "3", "4", "5", "6", "7", "8", "9", "0">>,
      <<"9", "7", "8", "-", "1", "-", "2", "3", "4", "-", "5", "6", "7", "8", "9", "-", "0">>,
      <<"1", " ", "2", "3", "4", " ", "5", "6", "7", "8", "9", "0">>,
      <<>>,
      <<"1", "2", "3">>,
      <<"1", "2", "3", "4", "5", "6", "7", "8", "9", "0", "1", "2", "3", "4">>,
      <<"1", "2", "3", "4", "5", "6", "7", "8", "9", "a">>,
      <<"i", "n", "v", "a", "l", "i", "d", "-", "i", "s", "b", "n">>,
      <<"X", "2", "3", "4", "5", "6", "7", "8", "9", "0">>,
      <<"9", "7", "8", "1", "2", "3", "4", "5", "6", "7", "8", "9", "X">> }

\* mutant: only hyphens are removed
_validate_isbn_keeps_spaces(isbn) ==
    LET clean == SelectSeq(isbn, LAMBDA c : c # "-")
        isbn10 == /\ Len(clean) = 10
                  /\ \A i \in 1 .. 9 : clean[i] \in Digits
                  /\ clean[10] \in Digits \cup {"X"}
        isbn13 == Len(clean) = 13 /\ \A i \in 1 .. 13 : clean[i] \in Digits
    IN IF isbn10 \/ isbn13
       THEN [exc |-> NoError, value |-> clean]
       ELSE [exc |-> ValidationError(<<"Invalid ISBN format">>, "isbn"), value |-> <<>>]

_validate_isbn(isbn) ==
    LET clean == SelectSeq(isbn, LAMBDA c : c \notin {"-", " "})
        isbn10 == /\ Len(clean) = 10
                  /\ \A i \in 1 .. 9 : clean[i] \in Digits
                  /\ clean[10] \in Digits \cup {"X"}
        isbn13 == Len(clean) = 13 /\ \A i \in 1 .. 13 : clean[i] \in Digits
    IN IF isbn10 \/ isbn13
       THEN [exc |-> NoError, value |-> clean]
       ELSE [exc |-> ValidationError(<<"Invalid ISBN format">>, "isbn"), value |-> <<>>]

\* one call of the client's _validate_isbn
validate_isbn ==
    /\ UNCHANGED <<globals, services>>
    /\ \E isbn \in IsbnInputs :
          LET v == _validate_isbn(isbn) IN
          IF v.exc = NoError
          THEN ReturnResult("_validate_isbn", [isbn |-> isbn], v.value)
          ELSE Raise("_validate_isbn", [isbn |-> isbn], <<>>, NoError, v.exc, FALSE, 0)

----------------------------------------------------------------------------
(* The content tools: parameter validation as the clients' tests show it,  *)
(* then cache lookup, rate limit, upstream request, cache store; every     *)
(* invocation is logged.                                                   *)

Responses == {"r1", "r2"}

UpstreamFailures(api) ==
    { APIError(<<"upstream request failed">>, api, "500"),
      ToolError(<<"not found">>, api),
      ValueError(<<"bad response">>) }

HasField(kwargs, f) == f \in DOMAIN kwargs

\* the limit a call carries, under either of its two names
LimitOf(kwargs) ==
    IF HasField(kwargs, "limit") THEN kwargs.limit
    ELSE IF HasField(kwargs, "max_results") THEN kwargs.max_results
    ELSE None

_validate_search_params(api, kwargs) ==
    IF HasField(kwargs, "query") /\ strip(kwargs.query) = <<>>
    THEN ValidationError(<<"Search query cannot be empty">>, None)
    ELSE IF HasField(kwargs, "word") /\ strip(kwargs.word) = <<>>
    THEN ValidationError(<<"Word cannot be empty">>, None)
    ELSE IF api \in {"open_library", "arxiv"}
            /\ (HasField(kwargs, "limit") \/ HasField(kwargs, "max_results"))
            /\ (LimitOf(kwargs) < 1 \/ LimitOf(kwargs) > 100)
    THEN ValidationError(<<"max_results must be between 1 and 100">>, None)
    ELSE IF api = "wikipedia" /\ HasField(kwargs, "limit") /\ kwargs.limit < 1
    THEN ValidationError(<<"limit must be at least 1">>, None)
    ELSE NoError

\* one invocation of a tool method by handler h, whose except clause wraps
\* failures under prefix
ToolCall(h, args, api, method, kwargs, prefix) ==
    LET key == generate_cache_key(api, method, kwargs)
        verr == IF HasField(kwargs, "isbn") THEN _validate_isbn(kwargs.isbn).exc
                ELSE _validate_search_params(api, kwargs)
        calls == <<[method |-> method, kwargs |-> kwargs]>>
        stale == key \in DOMAIN cache /\ now >= cache[key].stored + CacheTTL
        \* when the request goes upstream: now if the budget allows, else
        \* delayed to the start of the next window
        sendAt == IF check_rate_limit(api, now) THEN now ELSE next_window(now)
        rejected == RateLimitError(<<"Rate limit exceeded">>, api, None)
    IN
    /\ Len(usage_log) < MaxLog
    /\ UNCHANGED globals
    /\ \/ \* the awaiting task is cancelled
          /\ Raise(h, args, calls, CancelledError, HandlerExcept(prefix, CancelledError), FALSE, 0)
          /\ UNCHANGED services
       \/ \* invalid parameters
          /\ verr # NoError
          /\ Raise(h, args, calls, verr, HandlerExcept(prefix, verr), FALSE, 0)
          /\ usage_log' = record_usage(api, method, FALSE)
          /\ UNCHANGED <<now, cache, windows, admitted, stored>>
       \/ \* served from the cache
          /\ verr = NoError
          /\ cache_get(key) # Miss
          /\ Return(h, args, calls, cache_get(key), TRUE, stale, 0)
          /\ usage_log' = record_usage(api, method, TRUE)
          /\ UNCHANGED <<now, cache, windows, admitted, stored>>
       \/ \* over budget: rejected
          /\ verr = NoError
          /\ cache_get(key) = Miss
          /\ ~check_rate_limit(api, now)
          /\ Raise(h, args, calls, rejected, HandlerExcept(prefix, rejected), stale, 0)
          /\ usage_log' = record_usage(api, method, FALSE)
          /\ UNCHANGED <<now, cache, windows, admitted, stored>>
       \/ \* the request goes upstream
          /\ verr = NoError
          /\ cache_get(key) = Miss
          /\ sendAt <= MaxTime
          /\ now' = sendAt
          /\ windows' = record_request(api, sendAt)
          /\ admitted' = [admitted EXCEPT ![api][window_of(sendAt)] = @ + 1]
          /\ \/ \E r \in Responses :
                  /\ cache' = cache_set(key, r, CacheTTL, sendAt)
                  /\ stored' = [t \in DOMAIN stored \cup {<<api, method, kwargs>>} |->
                                   IF t = <<api, method, kwargs>>
                                   THEN [value |-> r, at |-> sendAt] ELSE stored[t]]
                  /\ Return(h, args, calls, r, FALSE, stale, 1)
                  /\ usage_log' = record_usage(api, method, TRUE)
             \/ \E e \in UpstreamFailures(api) :
                  /\ UNCHANGED <<cache, stored>>
                  /\ Raise(h, args, calls, e, HandlerExcept(prefix, e), stale, 1)
                  /\ usage_log' = record_usage(api, method, FALSE)

----------------------------------------------------------------------------
(* main.py: the content tool handlers.  args are the handler's own        *)
(* parameters; the record passed to ToolCall is the keyword arguments it   *)
(* forwards to its tool.                                                   *)

GradeLevels == {"K-2", "3-5", "6-8", "9-12", "College"}

\* mutant: the limit is checked before the query and the grade level
search_educational_books_limit_first(query, subject, grade_level, limit) ==
    LET h == "search_educational_books"
        args == [query |-> query, subject |-> subject, grade_level |-> grade_level, limit |-> limit]
    IN
    IF ~openlibrary_tool
    THEN Reject(h, args, <<"Open Library tool not properly initialized">>)
    ELSE IF limit < 1 \/ limit > 50
    THEN Reject(h, args, <<"Limit must be between 1 and 50">>)
    ELSE IF query = <<>> \/ strip(query) = <<>>
    THEN Reject(h, args, <<"Query cannot be empty">>)
    ELSE IF Truthy(grade_level) /\ grade_level \notin GradeLevels
    THEN Reject(h, args, <<"Invalid grade level: ", grade_level>>)
    ELSE ToolCall(h, args, "open_library", "search_educational_books",
                  [query |-> query, subject |-> subject, grade_level |-> grade_level, limit |-> limit],
                  "Book search failed")

\* mutant: the parameters are validated before the tool is looked at
search_educational_books_validates_first(query, subject, grade_level, limit) ==
    LET h == "search_educational_books"
        args == [query |-> query, subject |-> subject, grade_level |-> grade_level, limit |-> limit]
    IN
    IF query = <<>> \/ strip(query) = <<>>
    THEN Reject(h, args, <<"Query cannot be empty">>)
    ELSE IF ~openlibrary_tool
    THEN Reject(h, args, <<"Open Library tool not properly initialized">>)
    ELSE IF Truthy(grade_level) /\ grade_level \notin GradeLevels
    THEN Reject(h, args, <<"Invalid grade level: ", grade_level>>)
    ELSE IF limit < 1 \/ limit > 50
    THEN Reject(h, args, <<"Limit must be between 1 and 50">>)
    ELSE ToolCall(h, args, "open_library", "search_educational_books",
                  [query |-> query, subject |-> subject, grade_level |-> grade_level, limit |-> limit],
                  "Book search failed")

search_educational_books(query, subject, grade_level, limit) ==
    LET h == "search_educational_books"
        args == [query |-> query, subject |-> subject, grade_level |-> grade_level, limit |-> limit]
    IN
    IF ~openlibrary_tool
    THEN Reject(h, args, <<"Open Library tool not properly initialized">>)
    ELSE IF query = <<>> \/ strip(query) = <<>>
    THEN Reject(h, args, <<"Query cannot be empty">>)
    ELSE IF Truthy(grade_level) /\ grade_level \notin GradeLevels
    THEN Reject(h, args, <<"Invalid grade level: ", grade_level>>)
    ELSE IF limit < 1 \/ limit > 50
    THEN Reject(h, args, <<"Limit must be between 1 and 50">>)
    ELSE ToolCall(h, args, "open_library", "search_educational_books",
                  [query |-> query, subject |-> subject, grade_level |-> grade_level, limit |-> limit],
                  "Book search failed")

get_book_details_by_isbn(isbn, include_cover) ==
    LET h == "get_book_details_by_isbn"
        args == [isbn |-> isbn, include_cover |-> include_cover]
    IN
    IF ~openlibrary_tool
    THEN Reject(h, args, <<"Open Library tool not properly initialized">>)
    ELSE ToolCall(h, args, "open_library", "get_book_details_by_isbn",
                  [isbn |-> isbn, include_cover |-> include_cover],
                  "Book details retrieval failed")

search_books_by_subject(subject, grade_level, limit) ==
    LET h == "search_books_by_subject"
        args == [subject |-> subject, grade_level |-> grade_level, limit |-> limit]
    IN
    IF ~openlibrary_tool
    THEN Reject(h, args, <<"Open Library tool not properly initialized">>)
    ELSE ToolCall(h, args, "open_library", "search_books_by_subject",
                  [subject |-> subject, grade_level |-> grade_level, limit |-> limit],
                  "Subject search failed")

get_book_recommendations(grade_level, subject, limit) ==
    LET h == "get_book_recommendations"
        args == [grade_level |-> grade_level, subject |-> subject, limit |-> limit]
    IN
    IF ~openlibrary_tool
    THEN Reject(h, args, <<"Open Library tool not properly initialized">>)
    ELSE ToolCall(h, args, "open_library", "get_book_recommendations",
                  [grade_level |-> grade_level, subject |-> subject, limit |-> limit],
                  "Book recommendations failed")

search_educational_articles(query, subject, grade_level, language, limit) ==
    LET h == "search_educational_articles"
        args == [query |-> query, subject |-> subject, grade_level |-> grade_level, language |-> language, limit |-> limit]
    IN
    IF ~wikipedia_tool
    THEN Reject(h, args, <<"Wikipedia tool not properly initialized">>)
    ELSE ToolCall(h, args, "wikipedia", "search_educational_articles",
                  [query |-> query, subject |-> subject, grade_level |-> grade_level, language |-> language, limit |-> limit],
                  "Article search failed")

get_article_summary(title, language, include_educational_analysis) ==
    LET h == "get_article_summary"
        args == [title |-> title, language |-> language, include_educational_analysis |-> include_educational_analysis]
    IN
    IF ~wikipedia_tool
    THEN Reject(h, args, <<"Wikipedia tool not properly initialized">>)
    ELSE ToolCall(h, args, "wikipedia", "get_article_summary",
                  [title |-> title, language |-> language, include_educational_analysis |-> include_educational_analysis],
                  "Article summary retrieval failed")

get_article_content(title, language, include_images) ==
    LET h == "get_article_content"
        args == [title |-> title, language |-> language, include_images |-> include_images]
    IN
    IF ~wikipedia_tool
    THEN Reject(h, args, <<"Wikipedia tool not properly initialized">>)
    ELSE ToolCall(h, args, "wikipedia", "get_article_content",
                  [title |-> title, language |-> language, include_images |-> include_images],
                  "Article content retrieval failed")

get_featured_article(date, language) ==
    LET h == "get_featured_article"
        args == [date |-> date, language |-> language]
    IN
    IF ~wikipedia_tool
    THEN Reject(h, args, <<"Wikipedia tool not properly initialized">>)
    ELSE ToolCall(h, args, "wikipedia", "get_featured_article",
                  [date_param |-> date, language |-> language],
                  "Featured article retrieval failed")

get_articles_by_subject(subject, grade_level, language, limit) ==
    LET h == "get_articles_by_subject"
        args == [subject |-> subject, grade_level |-> grade_level, language |-> language, limit |-> limit]
    IN
    IF ~wikipedia_tool
    THEN Reject(h, args, <<"Wikipedia tool not properly initialized">>)
    ELSE ToolCall(h, args, "wikipedia", "get_articles_by_subject",
                  [subject |-> subject, grade_level |-> grade_level, language |-> language, limit |-> limit],
                  "Subject articles retrieval failed")

\* mutant: the word is compared with the empty string only
get_word_definition_unstripped(word, grade_level, include_pronunciation) ==
    LET h == "get_word_definition"
        args == [word |-> word, grade_level |-> grade_level, include_pronunciation |-> include_pronunciation]
    IN
    IF ~dictionary_tool
    THEN Reject(h, args, <<"Dictionary tool not properly initialized">>)
    ELSE IF word = <<>>
    THEN Reject(h, args, <<"Word cannot be empty">>)
    ELSE IF Truthy(grade_level) /\ grade_level \notin GradeLevels
    THEN Reject(h, args, <<"Invalid grade level: ", grade_level>>)
    ELSE ToolCall(h, args, "dictionary", "get_word_definition",
                  [word |-> word, grade_level |-> grade_level, include_pronunciation |-> include_pronunciation],
                  "Word definition retrieval failed")

get_word_definition(word, grade_level, include_pronunciation) ==
    LET h == "get_word_definition"
        args == [word |-> word, grade_level |-> grade_level, include_pronunciation |-> include_pronunciation]
    IN
    IF ~dictionary_tool
    THEN Reject(h, args, <<"Dictionary tool not properly initialized">>)
    ELSE IF word = <<>> \/ strip(word) = <<>>
    THEN Reject(h, args, <<"Word cannot be empty">>)
    ELSE IF Truthy(grade_level) /\ grade_level \notin GradeLevels
    THEN Reject(h, args, <<"Invalid grade level: ", grade_level>>)
    ELSE ToolCall(h, args, "dictionary", "get_word_definition",
                  [word |-> word, grade_level |-> grade_level, include_pronunciation |-> include_pronunciation],
                  "Word definition retrieval failed")

get_vocabulary_analysis(word, context) ==
    LET h == "get_vocabulary_analysis"
        args == [word |-> word, context |-> context]
    IN
    IF ~dictionary_tool
    THEN Reject(h, args, <<"Dictionary tool not properly initialized">>)
    ELSE ToolCall(h, args, "dictionary", "get_vocabulary_analysis",
                  [word |-> word, context |-> context],
                  "Vocabulary analysis failed")

get_word_examples(word, grade_level, subject) ==
    LET h == "get_word_examples"
        args == [word |-> word, grade_level |-> grade_level, subject |-> subject]
    IN
    IF ~dictionary_tool
    THEN Reject(h, args, <<"Dictionary tool not properly initialized">>)
    ELSE ToolCall(h, args, "dictionary", "get_word_examples",
                  [word |-> word, grade_level |-> grade_level, subject |-> subject],
                  "Word examples retrieval failed")

get_pronunciation_guide(word, include_audio) ==
    LET h == "get_pronunciation_guide"
        args == [word |-> word, include_audio |-> include_audio]
    IN
    IF ~dictionary_tool
    THEN Reject(h, args, <<"Dictionary tool not properly initialized">>)
    ELSE ToolCall(h, args, "dictionary", "get_pronunciation_guide",
                  [word |-> word, include_audio |-> include_audio],
                  "Pronunciation guide retrieval failed")

get_related_vocabulary(word, relationship_type, grade_level, limit) ==
    LET h == "get_related_vocabulary"
        args == [word |-> word, relationship_type |-> relationship_type, grade_level |-> grade_level, limit |-> limit]
    IN
    IF ~dictionary_tool
    THEN Reject(h, args, <<"Dictionary tool not properly initialized">>)
    ELSE ToolCall(h, args, "dictionary", "get_related_vocabulary",
                  [word |-> word, relationship_type |-> relationship_type, grade_level |-> grade_level, limit |-> limit],
                  "Related vocabulary retrieval failed")

search_academic_papers(query, subject, academic_level, max_results, include_educational_analysis) ==
    LET h == "search_academic_papers"
        args == [query |-> query, subject |-> subject, academic_level |-> academic_level, max_results |-> max_results, include_educational_analysis |-> include_educational_analysis]
    IN
    IF ~arxiv_tool
    THEN Reject(h, args, <<"arXiv tool not properly initialized">>)
    ELSE ToolCall(h, args, "arxiv", "search_academic_papers",
                  [query |-> query, subject |-> subject, academic_level |-> academic_level, max_results |-> max_results, include_educational_analysis |-> include_educational_analysis],
                  "Academic paper search failed")

get_paper_summary(paper_id, include_educational_analysis) ==
    LET h == "get_paper_summary"
        args == [paper_id |-> paper_id, include_educational_analysis |-> include_educational_analysis]
    IN
    IF ~arxiv_tool
    THEN Reject(h, args, <<"arXiv tool not properly initialized">>)
    ELSE ToolCall(h, args, "arxiv", "get_paper_summary",
                  [paper_id |-> paper_id, include_educational_analysis |-> include_educational_analysis],
                  "Paper summary retrieval failed")

get_recent_research(subject, days, academic_level, max_results) ==
    LET h == "get_recent_research"
        args == [subject |-> subject, days |-> days, academic_level |-> academic_level, max_results |-> max_results]
    IN
    IF ~arxiv_tool
    THEN Reject(h, args, <<"arXiv tool not properly initialized">>)
    ELSE ToolCall(h, args, "arxiv", "get_recent_research",
                  [subject |-> subject, days |-> days, academic_level |-> academic_level, max_results |-> max_results],
                  "Recent research retrieval failed")

get_research_by_level(academic_level, subject, max_results) ==
    LET h == "get_research_by_level"
        args == [academic_level |-> academic_level, subject |-> subject, max_results |-> max_results]
    IN
    IF ~arxiv_tool
    THEN Reject(h, args, <<"arXiv tool not properly initialized">>)
    ELSE ToolCall(h, args, "arxiv", "get_research_by_level",
                  [academic_level |-> academic_level, subject |-> subject, max_results |-> max_results],
                  "Research by level retrieval failed")

analyze_research_trends(subject, days) ==
    LET h == "analyze_research_trends"
        args == [subject |-> subject, days |-> days]
    IN
    IF ~arxiv_tool
    THEN Reject(h, args, <<"arXiv tool not properly initialized">>)
    ELSE ToolCall(h, args, "arxiv", "analyze_research_trends",
                  [subject |-> subject, days |-> days],
                  "Research trend analysis failed")

----------------------------------------------------------------------------
(* main.py: get_server_status *)

\* the three statistics queries, in the order they are awaited
StatsQueries == <<"cache", "rate_limits", "usage">>

\* what a statistics query can raise
StatsFailures ==
    { CacheError(<<"db error">>, "get_stats"), ValueError(<<"bad response">>) }

StatusError(message) ==
    [status |-> "error", keys |-> {"status", "message"}, message |-> message,
     cache_healthy |-> FALSE]

StatusHealthy ==
    [status |-> "healthy",
     keys |-> {"status", "server", "cache", "rate_limits", "usage", "message"},
     message |-> <<"OpenEdu MCP Server is running with core infrastructure ready">>,
     cache_healthy |-> FALSE]

\* mutant: a failing statistics query is let through
get_server_status_uncaught ==
    LET h == "get_server_status" IN
    /\ UNCHANGED <<globals, services>>
    /\ IF ~cache_service \/ ~rate_limiting_service \/ ~usage_service
       THEN ReturnStatus(h, [failed |-> None],
                   StatusError(<<"Server services not properly initialized">>))
       ELSE \/ \E q \in 1 .. Len(StatsQueries), e \in StatsFailures :
                  Raise(h, [failed |-> StatsQueries[q]], <<>>, e, e, FALSE, 0)
            \/ \E q \in 1 .. Len(StatsQueries) :
                  Raise(h, [failed |-> StatsQueries[q]], <<>>,
                        CancelledError, CancelledError, FALSE, 0)
            \/ ReturnStatus(h, [failed |-> None],
                   StatusHealthy)

\* mutant: a server with an unset tool is not reported healthy
get_server_status_checks_tools ==
    LET h == "get_server_status" IN
    /\ UNCHANGED <<globals, services>>
    /\ IF \/ ~cache_service \/ ~rate_limiting_service \/ ~usage_service
          \/ ~openlibrary_tool \/ ~wikipedia_tool \/ ~dictionary_tool \/ ~arxiv_tool
       THEN ReturnStatus(h, [failed |-> None],
                   StatusError(<<"Server services not properly initialized">>))
       ELSE \/ \E q \in 1 .. Len(StatsQueries), e \in StatsFailures :
                  ReturnStatus(h, [failed |-> StatsQueries[q]],
                   StatusError(<<"Failed to get server status: ">> \o Str(e)))
            \/ \E q \in 1 .. Len(StatsQueries) :
                  Raise(h, [failed |-> StatsQueries[q]], <<>>,
                        CancelledError, CancelledError, FALSE, 0)
            \/ ReturnStatus(h, [failed |-> None],
                   StatusHealthy)

\* args records which of the awaited queries did not complete (None: all did)
get_server_status ==
    LET h == "get_server_status" IN
    /\ UNCHANGED <<globals, services>>
    /\ IF ~cache_service \/ ~rate_limiting_service \/ ~usage_service
       THEN ReturnStatus(h, [failed |-> None],
                   StatusError(<<"Server services not properly initialized">>))
       ELSE \/ \* a query raises: except Exception
               \E q \in 1 .. Len(StatsQueries), e \in StatsFailures :
                  ReturnStatus(h, [failed |-> StatsQueries[q]],
                   StatusError(<<"Failed to get server status: ">> \o Str(e)))
            \/ \* the awaiting task is cancelled
               \E q \in 1 .. Len(StatsQueries) :
                  Raise(h, [failed |-> StatsQueries[q]], <<>>,
                        CancelledError, CancelledError, FALSE, 0)
            \/ ReturnStatus(h, [failed |-> None],
                   StatusHealthy)

----------------------------------------------------------------------------
(* Health checks, as the tests of the cache service and of the four tools  *)
(* show them.  cache_healthy has a meaning only in a report that lists the *)
(* key.                                                                    *)

ToolName(api) == IF api = "open_library" THEN "openlibrary" ELSE api

ToolOf(api) ==
    CASE api = "open_library" -> openlibrary_tool
      [] api = "wikipedia" -> wikipedia_tool
      [] api = "dictionary" -> dictionary_tool
      [] api = "arxiv" -> arxiv_tool

\* what the upstream client's health check can raise
ClientFailures(api) ==
    { ValueError(<<"Connection failed">>),
      APIError(<<"upstream request failed">>, api, "500") }

\* mutant: an unreachable database is reported by returning False
CacheService_health_check_returns_false(db_ok) ==
    [outcome |-> "return", value |-> db_ok, exc |-> NoError]

\* CacheService.health_check: True, or CacheError when the database
\* connection fails
CacheService_health_check(db_ok) ==
    IF db_ok
    THEN [outcome |-> "return", value |-> TRUE, exc |-> NoError]
    ELSE [outcome |-> "raise", value |-> FALSE,
          exc |-> CacheError(<<"Cache health check failed">>, "health_check")]

\* the keys of a tool's report besides status
ReportKeys(api, healthy) ==
    {"status", "tool_name"} \cup
    (IF ~healthy THEN {"error"}
     ELSE CASE api = "open_library" -> {"api_health", "test_search_results"}
            [] api = "wikipedia" -> {"api_name", "educational_features"}
            [] api = "dictionary" -> {"api_status", "features", "timestamp"}
            [] api = "arxiv" -> {"api_health", "cache_healthy", "rate_limit_status"})

\* mutant: the failure of the client's health check is let through
health_check_uncaught(api) ==
    /\ ToolOf(api)
    /\ UNCHANGED <<globals, services>>
    /\ \E db_ok \in BOOLEAN :
          \/ ReturnStatus("health_check", [tool |-> api, client |-> "healthy", db_ok |-> db_ok],
                 [status |-> "healthy", keys |-> ReportKeys(api, TRUE),
                  message |-> <<>>, cache_healthy |-> TRUE])
          \/ \E e \in ClientFailures(api) :
                Raise("health_check", [tool |-> api, client |-> "raises", db_ok |-> db_ok],
                      <<>>, e, e, FALSE, 0)

\* health_check of the tool of api; args record what the client and the
\* database did
health_check(api) ==
    /\ ToolOf(api)
    /\ UNCHANGED <<globals, services>>
    /\ \E db_ok \in BOOLEAN :
          LET cache_ok == CacheService_health_check(db_ok).outcome = "return"
                          /\ CacheService_health_check(db_ok).value
          IN
          \/ \* the client reports healthy
             IF api = "arxiv" /\ ~cache_ok
             THEN ReturnStatus("health_check",
                     [tool |-> api, client |-> "healthy", db_ok |-> db_ok],
                     [status |-> "unhealthy",
                      keys |-> {"status", "tool_name", "api_health", "cache_healthy",
                                "rate_limit_status"},
                      message |-> <<>>, cache_healthy |-> FALSE])
             ELSE /\ (api = "arxiv" \/ db_ok)
                  /\ ReturnStatus("health_check",
                        [tool |-> api, client |-> "healthy", db_ok |-> db_ok],
                        [status |-> "healthy", keys |-> ReportKeys(api, TRUE),
                         message |-> <<>>, cache_healthy |-> TRUE])
          \/ \* the client's health check raises
             \E e \in ClientFailures(api) :
                ReturnStatus("health_check",
                    [tool |-> api, client |-> "raises", db_ok |-> db_ok],
                    [status |-> "unhealthy", keys |-> ReportKeys(api, FALSE),
                     message |-> Str(e), cache_healthy |-> FALSE])

\* a direct call of the cache service's health check
cache_health_check ==
    /\ cache_service
    /\ UNCHANGED <<globals, services>>
    /\ \E db_ok \in BOOLEAN :
          LET res == CacheService_health_check(db_ok) IN
          IF res.outcome = "return"
          THEN ReturnStatus("CacheService.health_check", [db_ok |-> db_ok],
                  [status |-> IF res.value THEN "True" ELSE "False",
                   keys |-> {}, message |-> <<>>, cache_healthy |-> res.value])
          ELSE Raise("CacheService.health_check", [db_ok |-> db_ok], <<>>,
                     res.exc, res.exc, FALSE, 0)

----------------------------------------------------------------------------
(* The tools' educational filter, as the tools' tests show it.  Scores are *)
(* counted in tenths: 7 is 0.7.                                            *)

MaxItems == 2       \* length of a list handed to the filter

ItemScores == {3, 7}
ItemGrades == {{"6-8"}, {"College"}}
ItemSubjects == {{"Mathematics"}, {"Other"}}

\* records with their educational metadata
Items ==
    [score : ItemScores, grade_levels : ItemGrades, educational_subjects : ItemSubjects]

ItemLists == UNION { [1 .. n -> Items] : n \in 0 .. MaxItems }

\* mutant: an item at the threshold is dropped
_apply_educational_filters_strict(items, min_relevance_score, grade_level, subject) ==
    LET keep(it) ==
            /\ it.score > min_relevance_score
            /\ (grade_level # None => grade_level \in it.grade_levels)
            /\ (subject # None => subject \in it.educational_subjects)
    IN SelectSeq(items, keep)

_apply_educational_filters(items, min_relevance_score, grade_level, subject) ==
    LET keep(it) ==
            /\ it.score >= min_relevance_score
            /\ (grade_level # None => grade_level \in it.grade_levels)
            /\ (subject # None => subject \in it.educational_subjects)
    IN SelectSeq(items, keep)

\* one application of the filter
apply_educational_filters ==
    /\ UNCHANGED <<globals, services>>
    /\ \E items \in ItemLists, m \in {5, 7},
          g \in {None, "6-8"}, sub \in {None, "Mathematics"} :
          ReturnResult("_apply_educational_filters",
                       [items |-> items, min_relevance_score |-> m,
                        grade_level |-> g, subject |-> sub],
                       _apply_educational_filters(items, m, g, sub))

----------------------------------------------------------------------------
(* models/book.py: Book.get_educational_score.  Scores are counted in      *)
(* tenths.  An Optional[int] is a sequence of at most one integer.         *)

\* the fields of a Book that the score reads
Books ==
    [educational_relevance_score : {0, 3, 5, 8, 10},
     grade_levels : {<<>>, <<"3-5">>},
     curriculum_alignment : {<<>>, <<"CCSS">>},
     educational_subjects : {<<>>, <<"Mathematics">>},
     lexile_score : {<<>>, <<0>>, <<600>>}]

\* truth value of an Optional[int]
TruthyInt(v) == v # <<>> /\ v[1] # 0

\* mutant: the boosted score is returned uncapped
get_educational_score_uncapped(self) ==
    LET s0 == self.educational_relevance_score
        s1 == IF self.grade_levels # <<>> THEN s0 + 2 ELSE s0
        s2 == IF self.curriculum_alignment # <<>> THEN s1 + 3 ELSE s1
        s3 == IF self.educational_subjects # <<>> THEN s2 + 1 ELSE s2
        s4 == IF TruthyInt(self.lexile_score) THEN s3 + 1 ELSE s3
    IN [score |-> s4, self |-> self]

\* the returned score and the book after the call
get_educational_score(self) ==
    LET s0 == self.educational_relevance_score
        s1 == IF self.grade_levels # <<>> THEN s0 + 2 ELSE s0
        s2 == IF self.curriculum_alignment # <<>> THEN s1 + 3 ELSE s1
        s3 == IF self.educational_subjects # <<>> THEN s2 + 1 ELSE s2
        s4 == IF TruthyInt(self.lexile_score) THEN s3 + 1 ELSE s3
    IN [score |-> IF s4 < 10 THEN s4 ELSE 10, self |-> self]

\* one call of get_educational_score
call_get_educational_score ==
    /\ UNCHANGED <<globals, services>>
    /\ \E book \in Books :
          ReturnResult("get_educational_score", [self |-> book],
                       <<get_educational_score(book)>>)

----------------------------------------------------------------------------
(* models/book.py: Book.from_open_library.  ol_data is a function from the *)
(* keys the response has; a key is a sequence of path pieces; a subject    *)
(* value is tagged str or list; an optional value that is not a string is  *)
(* a sequence of at most one element.                                      *)

Empty == [k \in {} |-> k]

Merge(f, g) ==
    [k \in DOMAIN f \cup DOMAIN g |-> IF k \in DOMAIN g THEN g[k] ELSE f[k]]

\* dict.get(k, default)
Get(d, k, default) == IF k \in DOMAIN d THEN d[k] ELSE default

KeyParts ==
    { [title |-> "Minimal Book"],
      [key |-> <<"/works/", "OL123456W">>, title |-> "Minimal Book"],
      [key |-> <<"/books/", "OL1M", "/works/">>] }

AuthorParts ==
    { Empty,
      [author_name |-> <<"Test Author", "Another Author">>],
      [authors |-> <<[name |-> "Test Author"], Empty>>] }

IsbnParts ==
    { Empty,
      [isbn |-> <<>>],
      [isbn |-> <<"1234567890", "9781234567890">>],
      [isbn |-> <<"9781234567890", "123", "0987654321", "1234567890", "9780000000000">>] }

SubjectParts ==
    { Empty,
      [subject |-> [str |-> "Mathematics"]],
      [subject |-> [list |-> <<"Elementary and Secondary Education", "Middle School Science",
                               "High School Physics", "College Algebra", "Mathematics",
                               "Education">>]] }

OtherParts ==
    { Empty,
      [first_publish_year |-> 2020, publisher |-> <<"Test Publisher">>, cover_i |-> 12345,
       number_of_pages_median |-> 150, language |-> <<"eng">>,
       description |-> "A comprehensive educational book."],
      [first_publish_year |-> 0, publisher |-> <<>>, cover_i |-> 0, language |-> <<>>] }

\* the terms of the grade inference that occur in subject.lower()
SubjectTerms(subject) ==
    CASE subject = "Elementary" -> {"elementary"}
      [] subject = "Elementary and Secondary Education" -> {"elementary", "secondary"}
      [] subject = "Middle School Science" -> {"middle"}
      [] subject = "High School Physics" -> {"high school"}
      [] subject = "College Algebra" -> {"college"}
      [] OTHER -> {}

\* the grade levels a subject adds
InferGrade(subject) ==
    LET t == SubjectTerms(subject) IN
    IF t \cap {"elementary", "primary", "kindergarten"} # {} THEN <<"K-2">>
    ELSE IF t \cap {"middle", "junior"} # {} THEN <<"6-8">>
    ELSE IF t \cap {"high school", "secondary"} # {} THEN <<"9-12">>
    ELSE IF t \cap {"college", "university"} # {} THEN <<"College">>
    ELSE <<>>

RECURSIVE InferGrades(_)
InferGrades(subjects) ==
    IF subjects = <<>> THEN <<>>
    ELSE InferGrade(Head(subjects)) \o InferGrades(Tail(subjects))

\* str.replace(piece, "")
Remove(seq, piece) == SelectSeq(seq, LAMBDA x : x # piece)

\* mutant: the first ISBN of each length is kept
IsbnLoop_first(isbns, acc) ==
    LET tens == SelectSeq(isbns, LAMBDA v : Len(v) = 10)
        thirteens == SelectSeq(isbns, LAMBDA v : Len(v) = 13)
    IN [isbn |-> IF tens = <<>> THEN acc.isbn ELSE tens[1],
        isbn13 |-> IF thirteens = <<>> THEN acc.isbn13 ELSE thirteens[1]]

\* for isbn_val in ol_data["isbn"]
RECURSIVE IsbnLoop(_, _)
IsbnLoop(isbns, acc) ==
    IF isbns = <<>> THEN acc
    ELSE IsbnLoop(Tail(isbns),
                  IF Len(Head(isbns)) = 10 THEN [acc EXCEPT !.isbn = Head(isbns)]
                  ELSE IF Len(Head(isbns)) = 13 THEN [acc EXCEPT !.isbn13 = Head(isbns)]
                  ELSE acc)

from_open_library(ol_data) ==
    LET work_id == Remove(Get(ol_data, "key", <<>>), "/works/")
        authors ==
            IF "author_name" \in DOMAIN ol_data THEN ol_data.author_name
            ELSE IF "authors" \in DOMAIN ol_data
            THEN [n \in 1 .. Len(ol_data.authors) |-> Get(ol_data.authors[n], "name", "")]
            ELSE <<>>
        \* date(year, 1, 1) raises ValueError for a year outside 1..9999
        publication_date ==
            IF "first_publish_year" \in DOMAIN ol_data
               /\ ol_data.first_publish_year \in 1 .. 9999
            THEN <<[year |-> ol_data.first_publish_year, month |-> 1, day |-> 1]>>
            ELSE <<>>
        isbns ==
            IF "isbn" \in DOMAIN ol_data /\ ol_data.isbn # <<>>
            THEN IsbnLoop(ol_data.isbn, [isbn |-> None, isbn13 |-> None])
            ELSE [isbn |-> None, isbn13 |-> None]
        raw == Get(ol_data, "subject", [list |-> <<>>])
        subjects == IF "str" \in DOMAIN raw THEN <<raw.str>> ELSE raw.list
        cover_i == Get(ol_data, "cover_i", 0)
    IN
    [id |-> work_id,
     title |-> Get(ol_data, "title", ""),
     authors |-> authors,
     isbn |-> isbns.isbn,
     isbn13 |-> isbns.isbn13,
     publication_date |-> publication_date,
     publisher |-> IF Get(ol_data, "publisher", <<>>) # <<>>
                   THEN ol_data.publisher[1] ELSE None,
     subjects |-> subjects,
     description |-> Get(ol_data, "description", ""),
     cover_url |-> IF cover_i # 0
                   THEN <<"https://covers.openlibrary.org/b/id/", cover_i, "-L.jpg">>
                   ELSE <<>>,
     page_count |-> IF "number_of_pages_median" \in DOMAIN ol_data
                    THEN <<ol_data.number_of_pages_median>> ELSE <<>>,
     language |-> IF Get(ol_data, "language", <<>>) # <<>>
                  THEN ol_data.language[1] ELSE "en",
     grade_levels |-> InferGrades(subjects),
     educational_subjects |-> SubSeq(subjects, 1, IF Len(subjects) < 5 THEN Len(subjects) ELSE 5),
     source |-> "open_library",
     source_url |-> <<"https://openlibrary.org/works/">> \o work_id]

\* one call of Book.from_open_library
call_from_open_library ==
    /\ UNCHANGED <<globals, services>>
    /\ \E k \in KeyParts, a \in AuthorParts, i \in IsbnParts,
          sub \in SubjectParts, o \in OtherParts :
          LET ol_data == Merge(k, Merge(a, Merge(i, Merge(sub, o))))
          IN ReturnResult("from_open_library", [ol_data |-> ol_data],
                          <<from_open_library(ol_data)>>)

----------------------------------------------------------------------------
(* main.py: tool registration.  Each @mcp.tool() decorator, applied when   *)
(* the module is loaded, registers the function under its own name.        *)

\* the decorated functions, in source order
Decorated ==
    << "search_educational_books",
       "get_book_details_by_isbn",
       "search_books_by_subject",
       "get_book_recommendations",
       "search_educational_articles",
       "get_article_summary",
       "get_article_content",
       "get_featured_article",
       "get_articles_by_subject",
       "get_word_definition",
       "get_vocabulary_analysis",
       "get_word_examples",
       "get_pronunciation_guide",
       "get_related_vocabulary",
       "search_academic_papers",
       "get_paper_summary",
       "get_recent_research",
       "get_research_by_level",
       "analyze_research_trends",
       "handle_stdio_input",
       "stream_events",
       "get_server_status" >>

\* mutant: every function is registered under the same name
add_tool_anonymous(registry, fn) == Merge(registry, [tool |-> fn])

\* mcp.tool()(fn): the name is fn.__name__
add_tool(registry, fn) ==
    [n \in DOMAIN registry \cup {fn} |-> IF n = fn THEN fn ELSE registry[n]]

RECURSIVE RegisterAll(_, _)
RegisterAll(fns, registry) ==
    IF fns = <<>> THEN registry
    ELSE RegisterAll(Tail(fns), add_tool(registry, Head(fns)))

\* name -> handler, once the module is loaded
Registry == RegisterAll(Decorated, Empty)

----------------------------------------------------------------------------
(* main.py: sse_event_generator, an async generator.  pc is where it is:   *)
(* new (not started), at_connected / at_ping / at_error (suspended at that *)
(* yield), check (in await request.is_disconnected()), ping (the check     *)
(* answered False), sleep (in asyncio.sleep), done.  An event without a    *)
(* heartbeat carries 0.                                                    *)

MaxPings == 3       \* pings one stream sends

\* connected: the client still holds the connection; gone_at: the number of
\* events sent when it dropped it; exit: why the generator finished
NoStream ==
    [pc |-> "new", loop_count |-> 0, events |-> <<>>,
     connected |-> TRUE, gone_at |-> 0, exit |-> None]

Event(event, heartbeat, message) ==
    [event |-> event, heartbeat |-> heartbeat, message |-> message]

\* what request.is_disconnected() can raise
DisconnectCheckFailures == { ValueError(<<"bad response">>) }

\* stream_events: a generator is created for a request
sse_open ==
    /\ stream.pc \in {"new", "done"}
    /\ stream' = [NoStream EXCEPT !.pc = "at_connected",
                                  !.events = <<Event("connected", 0,
                                     <<"Successfully connected to SSE stream">>)>>]
    /\ UNCHANGED <<globals, services, last>>

\* the client drops the connection of a running stream
client_disconnect ==
    /\ stream.pc \notin {"new", "done"}
    /\ stream.connected
    /\ stream' = [stream EXCEPT !.connected = FALSE, !.gone_at = Len(stream.events)]
    /\ UNCHANGED <<globals, services, last>>

\* the consumer asks for the next event
sse_next ==
    /\ stream.pc \in {"at_connected", "at_ping", "at_error"}
    /\ stream' = [stream EXCEPT !.pc = CASE stream.pc = "at_connected" -> "check"
                                         [] stream.pc = "at_ping" -> "sleep"
                                         [] stream.pc = "at_error" -> "done"]
    /\ UNCHANGED <<globals, services, last>>

\* the consumer closes the generator at a yield (GeneratorExit: only the
\* finally clause runs)
sse_close ==
    /\ stream.pc \in {"at_connected", "at_ping", "at_error"}
    /\ stream' = [stream EXCEPT !.pc = "done",
                                !.exit = IF stream.exit = None THEN "closed" ELSE @]
    /\ UNCHANGED <<globals, services, last>>

\* mutant: the loop does not look at the answer of is_disconnected()
sse_check_ignores_disconnect ==
    /\ stream.pc = "check"
    /\ \/ /\ stream.loop_count < MaxPings
          /\ stream' = [stream EXCEPT !.pc = "ping"]
       \/ \E e \in DisconnectCheckFailures :
             stream' = [stream EXCEPT !.pc = "at_error", !.exit = "error",
                                      !.events = Append(@, Event("error", 0, Str(e)))]
       \/ stream' = [stream EXCEPT !.pc = "done", !.exit = "cancelled"]
    /\ UNCHANGED <<globals, services, last>>

\* the top of the loop: await request.is_disconnected()
sse_check ==
    /\ stream.pc = "check"
    /\ \/ \* the client is gone: break
          /\ ~stream.connected
          /\ stream' = [stream EXCEPT !.pc = "done", !.exit = "disconnected"]
       \/ \* still connected
          /\ stream.connected
          /\ stream.loop_count < MaxPings
          /\ stream' = [stream EXCEPT !.pc = "ping"]
       \/ \* the check raises: except Exception yields an error event
          \E e \in DisconnectCheckFailures :
             stream' = [stream EXCEPT !.pc = "at_error", !.exit = "error",
                                      !.events = Append(@, Event("error", 0, Str(e)))]
       \/ \* the task is cancelled: except asyncio.CancelledError
          stream' = [stream EXCEPT !.pc = "done", !.exit = "cancelled"]
    /\ UNCHANGED <<globals, services, last>>

\* mutant: the counter is not advanced
sse_ping_no_increment ==
    /\ stream.pc = "ping"
    /\ stream' = [stream EXCEPT !.pc = "at_ping",
                                !.events = Append(@, Event("ping", stream.loop_count, <<"ping">>))]
    /\ UNCHANGED <<globals, services, last>>

\* loop_count += 1 and the ping is yielded
sse_ping ==
    /\ stream.pc = "ping"
    /\ stream' = [stream EXCEPT !.pc = "at_ping",
                                !.loop_count = @ + 1,
                                !.events = Append(@, Event("ping", stream.loop_count + 1,
                                                           <<"ping">>))]
    /\ UNCHANGED <<globals, services, last>>

\* await asyncio.sleep(5): it completes, or the task is cancelled
sse_sleep ==
    /\ stream.pc = "sleep"
    /\ \/ stream' = [stream EXCEPT !.pc = "check"]
       \/ stream' = [stream EXCEPT !.pc = "done", !.exit = "cancelled"]
    /\ UNCHANGED <<globals, services, last>>

----------------------------------------------------------------------------
(* tools/fallback_methods.py: _provide_educational_fallback.  Text is the  *)
(* sequence of its pieces; scores are counted in hundredths.               *)

ContentTypes == {"article", "book", "paper", "Article", "video", "definition", ""}
FallbackSubjects == {None, "", "Mathematics", "Life Science"}
FallbackGrades == {None, "", "3-5"}

\* subject_str.lower().replace(' ', '_') on the subjects above
Slug(subject_str) ==
    CASE subject_str = "General Education" -> "general_education"
      [] subject_str = "Mathematics" -> "mathematics"
      [] subject_str = "Life Science" -> "life_science"

\* the table of fallbacks, before the flag is added
fallbacks(subject, grade_level) ==
    LET subject_str == IF Truthy(subject) THEN subject ELSE "General Education"
        grade_str == IF Truthy(grade_level) THEN grade_level ELSE "K-12"
        grades == IF Truthy(grade_level) THEN <<grade_level>> ELSE <<"K-12">>
    IN
    [article |-> <<
        [title |-> <<subject_str, " Fundamentals">>,
         extract |-> <<"This is a fallback educational article about ", subject_str,
                       " for ", grade_str, " students.">>,
         url |-> <<"https://example.com/education/", Slug(subject_str)>>,
         educational_metadata |->
            [educational_relevance_score |-> 85,
             grade_levels |-> grades,
             educational_subjects |-> IF Truthy(subject) THEN <<subject>> ELSE <<"Education">>,
             reading_level |-> "Appropriate",
             difficulty_level |-> "Medium"]] >>,
     book |-> <<
        [title |-> <<subject_str, " Textbook for ", grade_str>>,
         author |-> "Educational System",
         isbn |-> "0000000000000",
         publisher |-> "OpenEdu Press",
         publish_date |-> "2025",
         educational_metadata |->
            [educational_relevance_score |-> 90,
             grade_levels |-> grades,
             educational_subjects |-> IF Truthy(subject) THEN <<subject>> ELSE <<"Education">>,
             reading_level |-> grade_str,
             difficulty_level |-> "Appropriate"]] >>,
     paper |-> <<
        [title |-> <<"Research in ", subject_str, " Education">>,
         authors |-> <<"Educational Researcher">>,
         summary |-> <<"This paper discusses educational approaches in ", subject_str,
                       " for ", grade_str, " students.">>,
         published |-> "2025-01-01",
         id |-> "fallback/2025.01234",
         educational_metadata |->
            [educational_relevance_score |-> 80,
             academic_level |-> IF Truthy(grade_level) THEN grade_level ELSE "Undergraduate",
             educational_subjects |-> IF Truthy(subject) THEN <<subject>>
                                      ELSE <<"Education Research">>]] >>]

\* mutant: the items are returned as the table has them
_provide_educational_fallback_unflagged(content_type, subject, grade_level) ==
    Get(fallbacks(subject, grade_level), content_type, <<>>)

_provide_educational_fallback(content_type, subject, grade_level) ==
    LET result == Get(fallbacks(subject, grade_level), content_type, <<>>)
    IN [i \in 1 .. Len(result) |-> Merge(result[i], [is_fallback |-> TRUE])]

\* one call of _provide_educational_fallback
provide_educational_fallback ==
    /\ UNCHANGED <<globals, services>>
    /\ \E c \in ContentTypes, sub \in FallbackSubjects, g \in FallbackGrades :
          ReturnResult("_provide_educational_fallback",
                       [content_type |-> c, subject |-> sub, grade_level |-> g],
                       _provide_educational_fallback(c, sub, g))

----------------------------------------------------------------------------
(* main.py: initialize_services.  The globals are assigned in the order    *)
(* config, cache_service, rate_limiting_service, usage_service,            *)
(* openlibrary_tool, wikipedia_tool, dictionary_tool, arxiv_tool; a run    *)
(* that raises after `done` assignments leaves the later globals as they   *)
(* were.  A tool keeps the services it was constructed with, so the        *)
(* counters an API's requests meet are fresh once its tool is rebuilt.     *)

InitSteps == 8

ToolStep(api) ==
    CASE api = "open_library" -> 5
      [] api = "wikipedia" -> 6
      [] api = "dictionary" -> 7
      [] api = "arxiv" -> 8

\* the assignments after which initialize_services awaits
AwaitSteps == {2, 4}

\* the resources that cleanup_services closes, and the assignment of
\* initialize_services that builds each
Resources == {"arxiv", "dictionary", "wikipedia", "open_library", "usage", "cache"}

ResourceStep(r) ==
    CASE r = "cache" -> 2
      [] r = "usage" -> 4
      [] OTHER -> ToolStep(r)

\* main() before its first statement: pc is where main is, hook whether the
\* cleanup is registered with atexit, status the exit status, log what main
\* has done, in order
NoProcess == [pc |-> "start", hook |-> FALSE, status |-> 0, log |-> <<>>]

\* mutant: the tools are built before the services
initialize_services_tools_first ==
    /\ UNCHANGED process
    /\ \E done \in 0 .. InitSteps :
        /\ closed' = { r \in closed : done < ResourceStep(r) }
        /\ config' = (config \/ done >= 1)
        /\ cache_service' = (cache_service \/ done >= 6)
        /\ rate_limiting_service' = (rate_limiting_service \/ done >= 7)
        /\ usage_service' = (usage_service \/ done >= 8)
        /\ openlibrary_tool' = (openlibrary_tool \/ done >= 2)
        /\ wikipedia_tool' = (wikipedia_tool \/ done >= 3)
        /\ dictionary_tool' = (dictionary_tool \/ done >= 4)
        /\ arxiv_tool' = (arxiv_tool \/ done >= 5)
        /\ windows' = [a \in APIs |->
                          IF done >= ToolStep(a) THEN FreshWindows[a] ELSE windows[a]]
        /\ admitted' = [a \in APIs |->
                          IF done >= ToolStep(a) THEN NoneAdmitted[a] ELSE admitted[a]]
        /\ UNCHANGED <<now, cache, stored, usage_log>>
        /\ \/ IF done = InitSteps
              THEN Return("initialize_services", <<>>, <<>>, None, FALSE, FALSE, 0)
              ELSE Raise("initialize_services", <<>>, <<>>, NoError,
                         OpenEduMCPError(<<"Server initialization failed: ">>), FALSE, 0)
           \/ \* the task is cancelled while it awaits a service's initialize()
              /\ done \in AwaitSteps
              /\ Raise("initialize_services", <<>>, <<>>, CancelledError, CancelledError,
                       FALSE, 0)

\* one run of initialize_services; an object that is built anew is open
RunInitializeServices ==
    \E done \in 0 .. InitSteps :
        /\ closed' = { r \in closed : done < ResourceStep(r) }
        /\ config' = (config \/ done >= 1)
        /\ cache_service' = (cache_service \/ done >= 2)
        /\ rate_limiting_service' = (rate_limiting_service \/ done >= 3)
        /\ usage_service' = (usage_service \/ done >= 4)
        /\ openlibrary_tool' = (openlibrary_tool \/ done >= 5)
        /\ wikipedia_tool' = (wikipedia_tool \/ done >= 6)
        /\ dictionary_tool' = (dictionary_tool \/ done >= 7)
        /\ arxiv_tool' = (arxiv_tool \/ done >= 8)
        /\ windows' = [a \in APIs |->
                          IF done >= ToolStep(a) THEN FreshWindows[a] ELSE windows[a]]
        /\ admitted' = [a \in APIs |->
                          IF done >= ToolStep(a) THEN NoneAdmitted[a] ELSE admitted[a]]
        /\ UNCHANGED <<now, cache, stored, usage_log>>
        /\ \/ IF done = InitSteps
              THEN Return("initialize_services", <<>>, <<>>, None, FALSE, FALSE, 0)
              ELSE Raise("initialize_services", <<>>, <<>>, NoError,
                         OpenEduMCPError(<<"Server initialization failed: ">>), FALSE, 0)
           \/ \* the task is cancelled while it awaits a service's initialize()
              /\ done \in AwaitSteps
              /\ Raise("initialize_services", <<>>, <<>>, CancelledError, CancelledError,
                       FALSE, 0)

initialize_services ==
    /\ RunInitializeServices
    /\ UNCHANGED process

----------------------------------------------------------------------------
(* main.py: cleanup_services.  The run passes the six resources in order;  *)
(* for each whose global is set it awaits close().  result lists the       *)
(* resources it closed, args the resource whose close() did not complete.  *)

CleanupOrder == <<"arxiv", "dictionary", "wikipedia", "open_library", "usage", "cache">>

\* the global that holds resource r
GlobalOf(r) ==
    CASE r = "arxiv" -> arxiv_tool
      [] r = "dictionary" -> dictionary_tool
      [] r = "wikipedia" -> wikipedia_tool
      [] r = "open_library" -> openlibrary_tool
      [] r = "usage" -> usage_service
      [] r = "cache" -> cache_service

\* what a close() can raise
CloseFailures == { ValueError(<<"close failed">>) }

\* the resources among the first n of the order whose global is set
ClosedUpTo(n) == SelectSeq(SubSeq(CleanupOrder, 1, n), GlobalOf)

Elements(seq) == { seq[i] : i \in 1 .. Len(seq) }

\* the record of a cleanup_services run
Cleanup(outcome, failed, cause, exc, result) ==
    /\ last' = [handler |-> "cleanup_services", args |-> [failed |-> failed],
                tool_calls |-> <<>>, outcome |-> outcome, cause |-> cause, exc |-> exc,
                value |-> None, hit |-> FALSE, stale |-> FALSE, upstream |-> 0,
                repeat |-> (last.handler = "cleanup_services" /\ last.args = [failed |-> failed]),
                report |-> NoReport, result |-> result]
    /\ closed' = closed \cup Elements(result)
    /\ UNCHANGED <<config, cache_service, rate_limiting_service, usage_service,
                   openlibrary_tool, wikipedia_tool, dictionary_tool, arxiv_tool,
                   services, stream>>

\* mutant: a close() that raises is logged and the next resource is closed
RunCleanupServices_continues ==
    \/ Cleanup("return", None, NoError, NoError, ClosedUpTo(Len(CleanupOrder)))
    \/ \E n \in 1 .. Len(CleanupOrder) :
          /\ GlobalOf(CleanupOrder[n])
          /\ \/ \E e \in CloseFailures :
                   Cleanup("return", CleanupOrder[n], e, NoError,
                           ClosedUpTo(n - 1) \o SelectSeq(SubSeq(CleanupOrder, n + 1,
                                                                Len(CleanupOrder)), GlobalOf))
             \/ Cleanup("raise", CleanupOrder[n], CancelledError, CancelledError,
                        ClosedUpTo(n - 1))

\* mutant: the globals are reset once their resources are closed
RunCleanupServices_resets ==
    \E n \in 0 .. Len(CleanupOrder) :
        LET result == ClosedUpTo(n) IN
        /\ IF n = Len(CleanupOrder) THEN TRUE ELSE GlobalOf(CleanupOrder[n + 1])
        /\ last' = [handler |-> "cleanup_services",
                    args |-> [failed |-> IF n = Len(CleanupOrder) THEN None
                                         ELSE CleanupOrder[n + 1]],
                    tool_calls |-> <<>>, outcome |-> "return",
                    cause |-> IF n = Len(CleanupOrder) THEN NoError
                              ELSE ValueError(<<"close failed">>),
                    exc |-> NoError,
                    value |-> None, hit |-> FALSE, stale |-> FALSE, upstream |-> 0,
                    repeat |-> FALSE, report |-> NoReport, result |-> result]
        /\ closed' = closed \cup Elements(result)
        /\ arxiv_tool' = (arxiv_tool /\ "arxiv" \notin Elements(result))
        /\ dictionary_tool' = (dictionary_tool /\ "dictionary" \notin Elements(result))
        /\ wikipedia_tool' = (wikipedia_tool /\ "wikipedia" \notin Elements(result))
        /\ openlibrary_tool' = (openlibrary_tool /\ "open_library" \notin Elements(result))
        /\ usage_service' = (usage_service /\ "usage" \notin Elements(result))
        /\ cache_service' = (cache_service /\ "cache" \notin Elements(result))
        /\ UNCHANGED <<config, rate_limiting_service, services, stream>>

\* one run of cleanup_services
RunCleanupServices ==
    \/ \* every close() completes
       Cleanup("return", None, NoError, NoError, ClosedUpTo(Len(CleanupOrder)))
    \/ \E n \in 1 .. Len(CleanupOrder) :
          /\ GlobalOf(CleanupOrder[n])
          /\ \/ \* close() raises: except Exception logs it
                \E e \in CloseFailures :
                   Cleanup("return", CleanupOrder[n], e, NoError, ClosedUpTo(n - 1))
             \/ \* the task is cancelled while it awaits close()
                Cleanup("raise", CleanupOrder[n], CancelledError, CancelledError,
                        ClosedUpTo(n - 1))

cleanup_services ==
    /\ RunCleanupServices
    /\ UNCHANGED process

----------------------------------------------------------------------------
(* main.py: main.  pc: start, initialized (asyncio.run returned),          *)
(* registered (the cleanup is registered with atexit), running (in         *)
(* mcp.run()), returned / interrupted / failed (the try block was left     *)
(* normally, by KeyboardInterrupt, by an Exception), stopped (the finally  *)
(* clause has run), exited.                                                *)

\* mutant: the server goes on after a failed initialization
main_initialize_ignores_failure ==
    /\ process.pc = "start"
    /\ RunInitializeServices
    /\ process' = [process EXCEPT !.pc = "initialized", !.log = Append(@, "initialized")]

\* asyncio.run(initialize_services())
main_initialize ==
    /\ process.pc = "start"
    /\ RunInitializeServices
    /\ process' = IF last'.outcome = "return"
                  THEN [process EXCEPT !.pc = "initialized", !.log = Append(@, "initialized")]
                  ELSE IF last'.exc = CancelledError
                  THEN [process EXCEPT !.pc = "interrupted"]
                  ELSE [process EXCEPT !.pc = "failed"]

\* atexit.register(lambda: asyncio.run(cleanup_services()))
main_register ==
    /\ process.pc = "initialized"
    /\ process' = [process EXCEPT !.pc = "registered", !.hook = TRUE,
                                  !.log = Append(@, "atexit.register")]
    /\ UNCHANGED <<objects, services, last, stream>>

\* mcp.run() is entered: the server is started
main_run ==
    /\ process.pc = "registered"
    /\ process' = [process EXCEPT !.pc = "running", !.log = Append(@, "mcp.run")]
    /\ UNCHANGED <<objects, services, last, stream>>

\* mcp.run() returns or raises an Exception
main_run_ends ==
    /\ process.pc = "running"
    /\ \E how \in {"returned", "failed"} : process' = [process EXCEPT !.pc = how]
    /\ UNCHANGED <<objects, services, last, stream>>

\* KeyboardInterrupt is raised in the try block after initialization
main_interrupt ==
    /\ process.pc \in {"initialized", "registered", "running"}
    /\ process' = [process EXCEPT !.pc = "interrupted"]
    /\ UNCHANGED <<objects, services, last, stream>>

\* the except clauses (sys.exit(1) after an Exception) and the finally
\* clause, which logs that the server stopped
main_finally ==
    /\ process.pc \in {"returned", "interrupted", "failed"}
    /\ process' = [process EXCEPT !.pc = "stopped",
                                  !.status = IF process.pc = "failed" THEN 1 ELSE 0,
                                  !.log = Append(@, "stopped")]
    /\ UNCHANGED <<objects, services, last, stream>>

\* the interpreter exits: the functions registered with atexit run
main_exit ==
    /\ process.pc = "stopped"
    /\ process' = [process EXCEPT !.pc = "exited", !.log = Append(@, "exit")]
    /\ IF process.hook
       THEN RunCleanupServices
       ELSE UNCHANGED <<objects, services, last, stream>>

----------------------------------------------------------------------------
(* The environment: time passes *)

Tick ==
    /\ now < MaxTime
    /\ now' = now + 1
    /\ UNCHANGED <<globals, cache, windows, admitted, stored, usage_log, last, stream>>

----------------------------------------------------------------------------
(* Initial states: the process at start-up, and the server after one       *)
(* successful initialize_services                                          *)

NoServices ==
    /\ now = 0
    /\ cache = <<>>
    /\ windows = FreshWindows
    /\ admitted = NoneAdmitted
    /\ stored = <<>>
    /\ usage_log = <<>>
    /\ last = NoCall
    /\ stream = NoStream
    /\ closed = {}
    /\ process = NoProcess

Init ==
    /\ config = FALSE
    /\ cache_service = FALSE
    /\ rate_limiting_service = FALSE
    /\ usage_service = FALSE
    /\ openlibrary_tool = FALSE
    /\ wikipedia_tool = FALSE
    /\ dictionary_tool = FALSE
    /\ arxiv_tool = FALSE
    /\ NoServices

InitReady ==
    /\ config = TRUE
    /\ cache_service = TRUE
    /\ rate_limiting_service = TRUE
    /\ usage_service = TRUE
    /\ openlibrary_tool = TRUE
    /\ wikipedia_tool = TRUE
    /\ dictionary_tool = TRUE
    /\ arxiv_tool = TRUE
    /\ NoServices

\* the process at start-up over the database of an earlier run: its cache
\* entries are gone, its usage records (of requests that failed) are kept
OldLog ==
    [i \in 1 .. OldRecords |->
        [api |-> "open_library", method |-> "search_educational_books", ok |-> FALSE]]

InitRestart ==
    /\ config = FALSE
    /\ cache_service = FALSE
    /\ rate_limiting_service = FALSE
    /\ usage_service = FALSE
    /\ openlibrary_tool = FALSE
    /\ wikipedia_tool = FALSE
    /\ dictionary_tool = FALSE
    /\ arxiv_tool = FALSE
    /\ now = 0
    /\ cache = <<>>
    /\ windows = FreshWindows
    /\ admitted = NoneAdmitted
    /\ stored = <<>>
    /\ usage_log = OldLog
    /\ last = NoCall
    /\ stream = NoStream
    /\ closed = {}
    /\ process = NoProcess

InitReadyRestart ==
    /\ config = TRUE
    /\ cache_service = TRUE
    /\ rate_limiting_service = TRUE
    /\ usage_service = TRUE
    /\ openlibrary_tool = TRUE
    /\ wikipedia_tool = TRUE
    /\ dictionary_tool = TRUE
    /\ arxiv_tool = TRUE
    /\ now = 0
    /\ cache = <<>>
    /\ windows = FreshWindows
    /\ admitted = NoneAdmitted
    /\ stored = <<>>
    /\ usage_log = OldLog
    /\ last = NoCall
    /\ stream = NoStream
    /\ closed = {}
    /\ process = NoProcess

----------------------------------------------------------------------------
(* SpecCache: an initialized server, the Open Library handlers called with *)
(* two queries and with two operations that take the same parameters       *)

Queries == {<<"a">>, <<"b">>}

NextCache ==
    \/ Tick
    \/ \E q \in Queries : search_educational_books(q, None, None, 10)
    \/ search_books_by_subject("a", "3-5", 10)
    \/ get_book_recommendations("3-5", "a", 10)

SpecCache == InitReady /\ [][NextCache]_vars

----------------------------------------------------------------------------
(* SpecRate: an initialized server, every API called *)

NextRate ==
    \/ Tick
    \/ \E q \in Queries : search_educational_books(q, None, None, 10)
    \/ search_educational_articles(<<"a">>, None, None, "en", 10)
    \/ get_word_definition(<<"a">>, None, TRUE)
    \/ \E q \in {<<>>, <<"a">>} : search_academic_papers(q, None, None, 10, TRUE)

SpecRate == InitReady /\ [][NextRate]_vars

----------------------------------------------------------------------------
(* SpecUsage: the process from start-up: initialization runs (also failing *)
(* and repeated ones), status queries and calls of a book and a word       *)
(* handler                                                                 *)

NextUsage ==
    \/ initialize_services
    \/ get_server_status
    \/ Tick
    \/ search_educational_books(<<"a">>, None, None, 10)
    \/ get_word_definition(<<"a">>, None, TRUE)

SpecUsage == Init /\ [][NextUsage]_vars

----------------------------------------------------------------------------
(* SpecDispatch: the process from start-up, every content handler called   *)

NextDispatch ==
    \/ initialize_services
    \/ \E q \in {<<>>, <<"a">>} : search_educational_books(q, None, None, 10)
    \/ get_book_details_by_isbn(<<"9", "7", "8", "1", "2", "3", "4", "5", "6", "7", "8", "9", "0">>, TRUE)
    \/ search_books_by_subject("a", None, 10)
    \/ get_book_recommendations("3-5", None, 10)
    \/ search_educational_articles(<<"a">>, None, None, "en", 10)
    \/ get_article_summary("a", "en", TRUE)
    \/ get_article_content("a", "en", FALSE)
    \/ get_featured_article(None, "en")
    \/ get_articles_by_subject("a", None, "en", 10)
    \/ \E w \in {<<>>, <<"a">>} : get_word_definition(w, None, TRUE)
    \/ get_vocabulary_analysis(<<"a">>, None)
    \/ get_word_examples(<<"a">>, None, None)
    \/ get_pronunciation_guide(<<"a">>, TRUE)
    \/ get_related_vocabulary(<<"a">>, "all", None, 10)
    \/ \E q \in {<<>>, <<"a">>} : search_academic_papers(q, None, None, 10, TRUE)
    \/ get_paper_summary("2301.00001", TRUE)
    \/ get_recent_research("a", 7, None, 10)
    \/ get_research_by_level("Graduate", None, 10)
    \/ analyze_research_trends("a", 30)

SpecDispatch == InitRestart /\ [][NextDispatch]_vars

----------------------------------------------------------------------------
(* SpecValidation: an initialized server, the handlers that validate their *)
(* parameters and the handlers that take a result count, called with valid *)
(* and invalid arguments                                                   *)

QueryInputs == {<<>>, <<" ">>, <<"a">>}
GradeInputs == {None, "", "3-5", "K-3"}
LimitInputs == {0, 1, 50, 51}
CountInputs == {0, 50, 51, 101}

NextValidation ==
    \/ \E q \in QueryInputs, g \in GradeInputs, l \in LimitInputs :
          search_educational_books(q, None, g, l)
    \/ \E w \in QueryInputs, g \in GradeInputs :
          get_word_definition(w, g, TRUE)
    \/ \E l \in CountInputs : search_books_by_subject("a", None, l)
    \/ \E l \in CountInputs : get_book_recommendations("3-5", None, l)
    \/ \E l \in CountInputs : search_educational_articles(<<"a">>, None, None, "en", l)
    \/ \E l \in CountInputs : search_academic_papers(<<"a">>, None, None, l, TRUE)

SpecValidation == InitReadyRestart /\ [][NextValidation]_vars

----------------------------------------------------------------------------
(* SpecGrade: an initialized server, the eight handlers that take a grade  *)
(* level, called with no, an empty, a valid and an invalid one             *)

NextGrade ==
    \/ \E g \in GradeInputs : search_educational_books(<<"a">>, None, g, 10)
    \/ \E g \in GradeInputs : search_books_by_subject("a", g, 10)
    \/ \E g \in GradeInputs : get_book_recommendations(g, None, 10)
    \/ \E g \in GradeInputs : search_educational_articles(<<"a">>, None, g, "en", 10)
    \/ \E g \in GradeInputs : get_articles_by_subject("a", g, "en", 10)
    \/ \E g \in GradeInputs : get_word_definition(<<"a">>, g, TRUE)
    \/ \E g \in GradeInputs : get_word_examples(<<"a">>, g, None)
    \/ \E g \in GradeInputs : get_related_vocabulary(<<"a">>, "all", g, 10)

SpecGrade == InitReadyRestart /\ [][NextGrade]_vars

----------------------------------------------------------------------------
(* SpecHealth: start-up, time, and the health checks of the cache service  *)
(* and of the four tools                                                   *)

NextHealth ==
    \/ initialize_services
    \/ Tick
    \/ cache_health_check
    \/ \E api \in APIs : health_check(api)

SpecHealth == Init /\ [][NextHealth]_vars

----------------------------------------------------------------------------
(* SpecFilter: the educational filter applied to lists of records          *)

NextFilter == apply_educational_filters

SpecFilter == InitReady /\ [][NextFilter]_vars

----------------------------------------------------------------------------
(* SpecBook: the Book model's constructor from an Open Library record and *)
(* its score                                                               *)

NextBook ==
    \/ call_from_open_library
    \/ call_get_educational_score

SpecBook == InitReady /\ [][NextBook]_vars

----------------------------------------------------------------------------
(* SpecSSE: SSE streams, one after another, on a server that may be        *)
(* asked for its status meanwhile                                          *)

NextSSE ==
    \/ sse_open
    \/ client_disconnect
    \/ sse_next
    \/ sse_close
    \/ sse_check
    \/ sse_ping
    \/ sse_sleep
    \/ get_server_status

SpecSSE == InitReady /\ [][NextSSE]_vars

\* the event loop resumes a generator whose await has completed, and the
\* response keeps asking a suspended generator for its next event
SpecSSEFair ==
    /\ SpecSSE
    /\ WF_vars(sse_next)
    /\ WF_vars(sse_check)
    /\ WF_vars(sse_ping)
    /\ WF_vars(sse_sleep)

----------------------------------------------------------------------------
(* SpecFallback: the tools' fallback content                               *)

NextFallback == provide_educational_fallback

SpecFallback == InitReady /\ [][NextFallback]_vars

----------------------------------------------------------------------------
(* SpecIsbn: an initialized server, ISBNs validated by the client and      *)
(* looked up through the handler                                           *)

NextIsbn ==
    \/ validate_isbn
    \/ \E isbn \in IsbnInputs : get_book_details_by_isbn(isbn, TRUE)

SpecIsbn == InitReadyRestart /\ [][NextIsbn]_vars

----------------------------------------------------------------------------
(* SpecCleanup: the process from start-up; services are initialized and    *)
(* cleaned up in any order, the status is asked and a book and a word are  *)
(* looked up meanwhile                                                     *)

NextCleanup ==
    \/ initialize_services
    \/ cleanup_services
    \/ get_server_status
    \/ search_educational_books(<<"a">>, None, None, 10)
    \/ get_word_definition(<<"a">>, None, TRUE)

SpecCleanup == InitRestart /\ [][NextCleanup]_vars

----------------------------------------------------------------------------
(* SpecMain: one run of main from start-up to the exit of the process; the *)
(* server, while it runs, is asked for its status and for a word           *)

NextMain ==
    \/ main_initialize
    \/ main_register
    \/ main_run
    \/ main_run_ends
    \/ main_interrupt
    \/ main_finally
    \/ main_exit
    \/ process.pc = "running" /\ get_server_status
    \/ process.pc = "running" /\ get_word_definition(<<"a">>, None, TRUE)

SpecMain == Init /\ [][NextMain]_vars

----------------------------------------------------------------------------
(* Reading the record of a call *)

BookHandlers == {"search_educational_books", "get_book_details_by_isbn",
                 "search_books_by_subject", "get_book_recommendations"}
ArticleHandlers == {"search_educational_articles", "get_article_summary",
                    "get_article_content", "get_featured_article",
                    "get_articles_by_subject"}
WordHandlers == {"get_word_definition", "get_vocabulary_analysis",
                 "get_word_examples", "get_pronunciation_guide",
                 "get_related_vocabulary"}
PaperHandlers == {"search_academic_papers", "get_paper_summary",
                  "get_recent_research", "get_research_by_level",
                  "analyze_research_trends"}
ContentHandlers == BookHandlers \cup ArticleHandlers \cup WordHandlers \cup PaperHandlers

\* the upstream API behind a handler's tool
HandlerApi(h) ==
    CASE h \in BookHandlers -> "open_library"
      [] h \in ArticleHandlers -> "wikipedia"
      [] h \in WordHandlers -> "dictionary"
      [] h \in PaperHandlers -> "arxiv"
      [] OTHER -> None

\* the call c of a content handler reached its tool
Reached(c) == c.handler \in ContentHandlers /\ c.tool_calls # <<>>

\* (API name, operation, parameters) of the tool call that c made
Triple(c) == <<HandlerApi(c.handler), c.tool_calls[1].method, c.tool_calls[1].kwargs>>

Cancelled(c) == c.outcome = "raise" /\ c.exc.type = "CancelledError"

\* the step is a call of a handler (and not the clock's)
CallStep == last' # last \/ usage_log' # usage_log

\* the handler's error came from a RateLimitError of its tool
RateLimited(c) ==
    /\ c.outcome = "raise"
    /\ Len(c.exc.message) >= 3
    /\ c.exc.message[3] = "Rate Limit Error ("

----------------------------------------------------------------------------
(* C1: of two consecutive calls of search_educational_books with the same  *)
(* arguments, the first of which went upstream and returned, the second,   *)
(* made while the entry the first stored has not expired and run to        *)
(* completion, sends no upstream request and returns the first's result.   *)

C1_Step ==
    ( /\ CallStep
      /\ last.handler = "search_educational_books"
      /\ last.outcome = "return"
      /\ last.upstream = 1
      /\ last'.handler = "search_educational_books"
      /\ last'.args = last.args
      /\ ~Cancelled(last')
      /\ now < stored[Triple(last)].at + CacheTTL )
    => ( /\ last'.outcome = "return"
         /\ last'.upstream = 0
         /\ last'.value = last.value )

C1_RepeatServedFromCache == [][C1_Step]_vars

C1_Witness ==
    /\ last.handler = "search_educational_books"
    /\ last.repeat
    /\ last.hit
    /\ last.upstream = 0
    /\ last.outcome = "return"

----------------------------------------------------------------------------
(* C2: in every window, the requests of an API that went upstream never    *)
(* exceed its budget; a request sent in the current window found the       *)
(* budget not yet used up.                                                 *)

C2_WithinBudget ==
    \A a \in APIs : \A w \in Windows : admitted[a][w] <= RateBudget

C2_Witness ==
    /\ RateLimited(last)
    /\ admitted[HandlerApi(last.handler)][window_of(now)] = RateBudget

----------------------------------------------------------------------------
(* C3: a lookup is served from the cache exactly when an entry for its key *)
(* was stored less than its time to live ago, and then it returns the      *)
(* value stored; a lookup at or after the expiration time is a miss.       *)

C3_Step ==
    LET t == Triple(last')
        live == t \in DOMAIN stored /\ now < stored[t].at + CacheTTL
    IN
    ( /\ usage_log' # usage_log
      /\ Reached(last')
      /\ _validate_search_params(HandlerApi(last'.handler), last'.tool_calls[1].kwargs) = NoError )
    => ( /\ last'.hit <=> live
         /\ last'.hit => last'.value = stored[t].value
         /\ last'.stale => ~last'.hit )

C3_ExpiredEntriesMiss == [][C3_Step]_vars

C3_Witness ==
    /\ Reached(last)
    /\ last.stale
    /\ ~last.hit
    /\ last.upstream = 1

----------------------------------------------------------------------------
(* C4: a lookup served from the cache returns the value that was stored    *)
(* for its own (API name, operation, parameters), never one stored for     *)
(* another triple.                                                         *)

C4_NoCrossTripleHit ==
    (Reached(last) /\ last.hit) =>
        /\ Triple(last) \in DOMAIN stored
        /\ last.value = stored[Triple(last)].value

C4_Witness ==
    /\ Reached(last)
    /\ last.hit
    /\ \E t \in DOMAIN stored :
          /\ t # Triple(last)
          /\ t[1] = Triple(last)[1]
          /\ t[3] = Triple(last)[3]
          /\ stored[t].value # last.value

----------------------------------------------------------------------------
(* C5: the usage log is append-only: every step keeps the records written  *)
(* so far, unchanged and in order; only a call that reached a content tool *)
(* adds to it, one record, and every such call that ran to completion      *)
(* does.                                                                   *)

C5_Step ==
    /\ IsPrefix(usage_log, usage_log')
    /\ usage_log' # usage_log =>
          /\ Reached(last')
          /\ Len(usage_log') = Len(usage_log) + 1
    /\ (last' # last /\ Reached(last') /\ ~Cancelled(last')) =>
          usage_log' # usage_log

C5_UsageLogAppendOnly == [][C5_Step]_vars

C5_Witness ==
    /\ Len(usage_log) >= 2
    /\ last.handler = "get_server_status"

----------------------------------------------------------------------------
(* C6: a call changes the window counter of its own API only; a call is    *)
(* rejected for the rate limit, or delayed into a later window, only when  *)
(* the budget of its own API is used up in the current window.             *)

C6_Step ==
    /\ \A a \in APIs :
          (windows'[a] # windows[a] \/ admitted'[a] # admitted[a]) =>
              (CallStep /\ HandlerApi(last'.handler) = a)
    /\ (CallStep /\ Reached(last') /\ (RateLimited(last') \/ now' # now)) =>
          window_count(HandlerApi(last'.handler), now) >= RateBudget

C6_BudgetsPerApi == [][C6_Step]_vars

C6_Witness ==
    /\ Reached(last)
    /\ last.outcome = "return"
    /\ last.upstream = 1
    /\ admitted[HandlerApi(last.handler)][window_of(now)] = 1
    /\ \E a \in APIs \ {HandlerApi(last.handler)} :
          /\ windows[a].window = window_of(now)
          /\ windows[a].count >= RateBudget
          /\ admitted[a][window_of(now)] = RateBudget

----------------------------------------------------------------------------
(* C7, as stated: a content handler returns its tool's result or raises    *)
(* OpenEduMCPError; no other exception type escapes a handler.             *)

C7_OnlyOpenEduMCPErrorEscapes ==
    (last.handler \in ContentHandlers /\ last.outcome = "raise") =>
        last.exc.type = "OpenEduMCPError"

(* C7, amended: a content handler returns its tool's result or raises.  An *)
(* exception of its tool call that is an instance of Exception (the        *)
(* server's classes and foreign ones such as ValueError) is re-raised as a *)
(* base-class OpenEduMCPError whose message ends with str() of the         *)
(* original; the handler's own refusals are OpenEduMCPError too; an        *)
(* exception outside Exception (asyncio.CancelledError) leaves the handler *)
(* as it is.                                                               *)

C7_ExceptionsWrapped ==
    (last.handler \in ContentHandlers /\ last.outcome = "raise") =>
        IF last.cause = NoError
        THEN last.exc.type = "OpenEduMCPError" /\ last.tool_calls = <<>>
        ELSE IF last.cause.type \in ExceptionClasses
        THEN /\ last.exc.type = "OpenEduMCPError"
             /\ IsSuffix(Str(last.cause), last.exc.message)
        ELSE /\ last.cause = CancelledError
             /\ last.exc = last.cause

C7_Witness ==
    /\ last.handler \in ContentHandlers
    /\ last.outcome = "raise"
    /\ last.cause.type = "ValueError"
    /\ last.exc.type = "OpenEduMCPError"
    /\ Len(last.exc.message) > Len(Str(last.cause))

----------------------------------------------------------------------------
(* C8: on an initialized server search_educational_books checks the query  *)
(* (empty or blank), then the grade level (non-empty and not one of the    *)
(* five), then the limit (outside 1..50); the first failing check gives    *)
(* the OpenEduMCPError it raises, the tool is not called and cache, rate   *)
(* limiter and usage log are as before.  When all pass the tool is called  *)
(* exactly once with the same query, subject, grade_level and limit.       *)

Blank(s) == \A i \in 1 .. Len(s) : s[i] \in {" ", "\t", "\n"}

BadGrade(g) == g \notin {None, "", "K-2", "3-5", "6-8", "9-12", "College"}

C8_Step ==
    (last' # last /\ last'.handler = "search_educational_books") =>
        LET a == last'.args
            refused(msg) == /\ last'.outcome = "raise"
                            /\ last'.exc = OpenEduMCPError(msg)
                            /\ last'.tool_calls = <<>>
                            /\ UNCHANGED services
        IN
        IF Blank(a.query) THEN refused(<<"Query cannot be empty">>)
        ELSE IF BadGrade(a.grade_level)
        THEN refused(<<"Invalid grade level: ", a.grade_level>>)
        ELSE IF a.limit < 1 \/ a.limit > 50
        THEN refused(<<"Limit must be between 1 and 50">>)
        ELSE /\ Len(last'.tool_calls) = 1
             /\ last'.tool_calls[1].method = "search_educational_books"
             /\ last'.tool_calls[1].kwargs =
                    [query |-> a.query, subject |-> a.subject,
                     grade_level |-> a.grade_level, limit |-> a.limit]

C8_SearchBooksValidation == [][C8_Step]_vars

\* a call that fails the grade and the limit check, refused for the grade,
\* after a call that went through
C8_Witness ==
    /\ last.handler = "search_educational_books"
    /\ ~Blank(last.args.query)
    /\ BadGrade(last.args.grade_level)
    /\ last.args.limit = 51
    /\ last.exc = OpenEduMCPError(<<"Invalid grade level: ", last.args.grade_level>>)
    /\ Len(usage_log) = OldRecords + 1

----------------------------------------------------------------------------
(* C9: on an initialized server get_word_definition raises OpenEduMCPError *)
(* without calling the dictionary tool when the word is empty or blank, or *)
(* when the grade level is non-empty and not one of the five; otherwise    *)
(* the tool is called exactly once with the same word, grade_level and     *)
(* include_pronunciation.                                                  *)

C9_Step ==
    (last' # last /\ last'.handler = "get_word_definition") =>
        LET a == last'.args IN
        IF Blank(a.word) \/ BadGrade(a.grade_level)
        THEN /\ last'.outcome = "raise"
             /\ last'.exc.type = "OpenEduMCPError"
             /\ last'.tool_calls = <<>>
             /\ UNCHANGED services
        ELSE /\ Len(last'.tool_calls) = 1
             /\ last'.tool_calls[1].method = "get_word_definition"
             /\ last'.tool_calls[1].kwargs =
                    [word |-> a.word, grade_level |-> a.grade_level,
                     include_pronunciation |-> a.include_pronunciation]

C9_WordDefinitionValidation == [][C9_Step]_vars

C9_Witness ==
    /\ last.handler = "get_word_definition"
    /\ last.args.word = <<" ">>
    /\ last.outcome = "raise"
    /\ last.tool_calls = <<>>
    /\ Len(usage_log) = OldRecords + 1

----------------------------------------------------------------------------
(* C10, as stated: the handlers documented with a result count of 1-50     *)
(* (search_books_by_subject, get_book_recommendations,                     *)
(* search_educational_articles by limit, search_academic_papers by         *)
(* max_results) raise OpenEduMCPError for a count below 1 or above 50.     *)

CountHandlers == {"search_books_by_subject", "get_book_recommendations",
                  "search_educational_articles", "search_academic_papers"}

CountOf(c) ==
    IF c.handler = "search_academic_papers" THEN c.args.max_results
    ELSE c.args.limit

----------------------------------------------------------------------------
(* C11, as stated: every handler that takes a grade_level refuses one      *)
(* outside K-2, 3-5, 6-8, 9-12, College as search_educational_books and    *)
(* get_word_definition do: with an OpenEduMCPError naming the grade level, *)
(* raised before the tool is called.                                       *)

GradeHandlers == {"search_educational_books", "search_books_by_subject",
                  "get_book_recommendations", "search_educational_articles",
                  "get_articles_by_subject", "get_word_definition",
                  "get_word_examples", "get_related_vocabulary"}

C11_InvalidGradeRefused ==
    (/\ last.handler \in GradeHandlers
     /\ BadGrade(last.args.grade_level)
     /\ ~Cancelled(last)) =>
        /\ last.outcome = "raise"
        /\ last.exc = OpenEduMCPError(<<"Invalid grade level: ", last.args.grade_level>>)
        /\ last.tool_calls = <<>>

----------------------------------------------------------------------------
(* C12, as stated: get_server_status never raises; it returns status       *)
(* 'error' when a service is unset or a statistics query raises, and       *)
(* 'healthy' with the keys server, cache, rate_limits and usage exactly    *)
(* when all three services are set and all three queries succeed.          *)

ServicesSet == cache_service /\ rate_limiting_service /\ usage_service

C12_StatusNeverRaises ==
    last.handler = "get_server_status" =>
        /\ last.outcome = "return"
        /\ (last.report.status = "healthy") <=> (ServicesSet /\ last.args.failed = None)

(* C12, amended: get_server_status raises only when the awaiting task is   *)
(* cancelled during a statistics query (asyncio.CancelledError is not an   *)
(* Exception).  Otherwise it returns: status 'error' when a service is     *)
(* unset, status 'error' with a message that starts 'Failed to get server  *)
(* status: ' and ends with str() of the exception when a query raises an   *)
(* Exception, and status 'healthy' with the keys server, cache,            *)
(* rate_limits and usage exactly when all three services are set and all   *)
(* three queries succeed.                                                  *)

C12_StatusReport ==
    last.handler = "get_server_status" =>
        IF last.outcome = "raise"
        THEN /\ ServicesSet
             /\ last.args.failed # None
             /\ last.exc = CancelledError
        ELSE /\ last.report.status \in {"error", "healthy"}
             /\ (last.report.status = "healthy") <=> (ServicesSet /\ last.args.failed = None)
             /\ last.report.status = "healthy" =>
                    {"server", "cache", "rate_limits", "usage"} \subseteq last.report.keys
             /\ (ServicesSet /\ last.args.failed # None) =>
                    /\ Len(last.report.message) > 1
                    /\ last.report.message[1] = "Failed to get server status: "

\* the third query raises a CacheError on a server whose services are set
C12_Witness ==
    /\ last.handler = "get_server_status"
    /\ ServicesSet
    /\ last.outcome = "return"
    /\ last.args.failed = "usage"
    /\ last.report = StatusError(<<"Failed to get server status: ">>
                                 \o Str(CacheError(<<"db error">>, "get_stats")))

----------------------------------------------------------------------------
(* C13: the health_check of each of the four content tools never raises:   *)
(* when the upstream client's health check raises, the report has status   *)
(* 'unhealthy' and an 'error' entry; when the client reports healthy and   *)
(* the cache is healthy, the status is 'healthy'.                          *)

----------------------------------------------------------------------------
(* C14: CacheService.health_check returns True when the database can be    *)
(* reached and raises CacheError, never returning False, when the          *)
(* connection fails; the arXiv tool's health_check turns that failure into *)
(* a report with status 'unhealthy' and cache_healthy = False even when    *)
(* the upstream API is healthy.                                            *)

C14_CacheHealth ==
    /\ last.handler = "CacheService.health_check" =>
          IF last.args.db_ok
          THEN last.outcome = "return" /\ last.report.cache_healthy
          ELSE last.outcome = "raise" /\ last.exc.type = "CacheError"
    /\ (/\ last.handler = "health_check"
        /\ last.args.tool = "arxiv"
        /\ last.args.client = "healthy"
        /\ ~last.args.db_ok) =>
          /\ last.outcome = "return"
          /\ last.report.status = "unhealthy"
          /\ "cache_healthy" \in last.report.keys
          /\ ~last.report.cache_healthy

C14_Witness ==
    /\ last.handler = "health_check"
    /\ last.args.tool = "arxiv"
    /\ last.args.client = "healthy"
    /\ ~last.args.db_ok
    /\ last.report.status = "unhealthy"

----------------------------------------------------------------------------
(* C15: the educational filter only removes items: its result is a         *)
(* subsequence of the input, every item of it has a relevance score of at  *)
(* least the threshold and carries the grade level and the subject asked   *)
(* for, and no item meeting all given criteria is dropped.                 *)

RECURSIVE IsSubsequence(_, _)
IsSubsequence(r, t) ==
    IF r = <<>> THEN TRUE
    ELSE IF t = <<>> THEN FALSE
    ELSE IF Head(r) = Head(t) THEN IsSubsequence(Tail(r), Tail(t))
    ELSE IsSubsequence(r, Tail(t))

MeetsCriteria(it, a) ==
    /\ it.score >= a.min_relevance_score
    /\ (a.grade_level # None => a.grade_level \in it.grade_levels)
    /\ (a.subject # None => a.subject \in it.educational_subjects)

----------------------------------------------------------------------------
(* C17: for a Book whose stored relevance score s is in 0.0..1.0,          *)
(* get_educational_score returns min(1.0, s + 0.2 for grade levels + 0.3   *)
(* for curriculum alignment + 0.1 for educational subjects + 0.1 for a     *)
(* non-zero lexile score); the result lies between s and 1.0 and the book  *)
(* is as before.                                                           *)

Bonus(b) ==
    (IF Len(b.grade_levels) > 0 THEN 2 ELSE 0)
    + (IF Len(b.curriculum_alignment) > 0 THEN 3 ELSE 0)
    + (IF Len(b.educational_subjects) > 0 THEN 1 ELSE 0)
    + (IF b.lexile_score \in {<<>>, <<0>>} THEN 0 ELSE 1)

C17_EducationalScore ==
    (/\ last.handler = "get_educational_score"
     /\ last.args.self.educational_relevance_score \in 0 .. 10) =>
        LET b == last.args.self
            s == b.educational_relevance_score
            res == last.result[1]
        IN
        /\ res.score = (IF s + Bonus(b) > 10 THEN 10 ELSE s + Bonus(b))
        /\ s <= res.score
        /\ res.score <= 10
        /\ res.self = b

\* all four bonuses apply and the sum is capped
C17_Witness ==
    /\ last.handler = "get_educational_score"
    /\ last.args.self.educational_relevance_score = 5
    /\ Bonus(last.args.self) = 7
    /\ last.result[1].score = 10

----------------------------------------------------------------------------
(* C18: Book.from_open_library does not raise for a record that lacks      *)
(* optional fields; id is the key with '/works/' removed; authors and      *)
(* subjects default to the empty list, a single subject string becomes a   *)
(* one-element list; the last ISBN of length 10 becomes isbn, the last of  *)
(* length 13 isbn13, other lengths are ignored and both are None when no   *)
(* ISBN is given; source is 'open_library'.                                *)

\* the positions of the strings of length n in a list
OfLen(list, n) == {i \in 1 .. Len(list) : Len(list[i]) = n}

Max(S) == CHOOSE x \in S : \A y \in S : y <= x

LastIsbn(d, n) ==
    IF "isbn" \in DOMAIN d /\ OfLen(d.isbn, n) # {}
    THEN d.isbn[Max(OfLen(d.isbn, n))]
    ELSE None

C18_FromOpenLibrary ==
    last.handler = "from_open_library" =>
        LET d == last.args.ol_data
            b == last.result[1]
        IN
        /\ last.outcome = "return"
        /\ "/works/" \notin {b.id[i] : i \in 1 .. Len(b.id)}
        /\ ("key" \in DOMAIN d => IsSubsequence(b.id, d.key)
                                   /\ \A i \in 1 .. Len(d.key) :
                                         d.key[i] # "/works/" =>
                                            d.key[i] \in {b.id[n] : n \in 1 .. Len(b.id)})
        /\ ("key" \notin DOMAIN d => b.id = <<>>)
        /\ ({"author_name", "authors"} \cap DOMAIN d = {} => b.authors = <<>>)
        /\ ("subject" \notin DOMAIN d => b.subjects = <<>>)
        /\ (("subject" \in DOMAIN d /\ "str" \in DOMAIN d.subject) =>
                b.subjects = <<d.subject.str>>)
        /\ b.isbn = LastIsbn(d, 10)
        /\ b.isbn13 = LastIsbn(d, 13)
        /\ b.source = "open_library"

\* two ISBNs of each length and one of another length
C18_Witness ==
    /\ last.handler = "from_open_library"
    /\ "isbn" \in DOMAIN last.args.ol_data
    /\ Len(last.args.ol_data.isbn) = 5
    /\ last.result[1].isbn = "1234567890"
    /\ last.result[1].isbn13 = "9780000000000"
    /\ "key" \notin DOMAIN last.args.ol_data
    /\ last.result[1].authors = <<>>

----------------------------------------------------------------------------
(* C19: the dispatch layer registers each of the 20 named operations (4    *)
(* Open Library, 5 Wikipedia, 5 dictionary, 5 arXiv tools and              *)
(* get_server_status) under its own name: the registered set has at least  *)
(* 20 entries and each expected name resolves to its handler.              *)

ExpectedTools == ContentHandlers \cup {"get_server_status"}

C19_AllToolsRegistered ==
    /\ Cardinality(ExpectedTools) = 20
    /\ Cardinality(DOMAIN Registry) >= 20
    /\ \A n \in ExpectedTools : n \in DOMAIN Registry /\ Registry[n] = n
    /\ last.handler \in ContentHandlers => Registry[last.handler] = last.handler

\* a call of the last content tool registered, resolved by its name
C19_Witness ==
    /\ last.handler = "analyze_research_trends"
    /\ Len(last.tool_calls) = 1
    /\ Registry[last.tool_calls[1].method] = last.handler
    /\ Cardinality(DOMAIN Registry) = Len(Decorated)

----------------------------------------------------------------------------
(* C20: on every SSE stream the first event is the one 'connected' event,  *)
(* every later normal event is a 'ping', the k-th ping carries heartbeat   *)
(* k, and an 'error' event, if any, is the last event of the stream.       *)

C20_StreamShape ==
    LET ev == stream.events IN
    /\ stream.pc # "new" => (Len(ev) >= 1 /\ ev[1].event = "connected")
    /\ \A i \in 2 .. Len(ev) :
          /\ ev[i].event \in {"ping", "error"}
          /\ ev[i].event = "ping" => ev[i].heartbeat = i - 1
          /\ ev[i].event = "error" => i = Len(ev)
    /\ (Len(ev) >= 1 /\ ev[Len(ev)].event = "error") => stream.pc \in {"at_error", "done"}

C20_Witness ==
    /\ stream.pc = "done"
    /\ Len(stream.events) = 4
    /\ stream.events[3].heartbeat = 2
    /\ stream.events[4].event = "error"

----------------------------------------------------------------------------
(* C21: every item that _provide_educational_fallback returns has          *)
(* is_fallback = True; for content_type article, book or paper exactly one *)
(* item is returned, for any other content_type the empty list.            *)

C21_FallbackFlagged ==
    last.handler = "_provide_educational_fallback" =>
        LET r == last.result IN
        /\ last.outcome = "return"
        /\ \A i \in 1 .. Len(r) : "is_fallback" \in DOMAIN r[i] /\ r[i].is_fallback = TRUE
        /\ Len(r) = (IF last.args.content_type \in {"article", "book", "paper"} THEN 1 ELSE 0)

C21_Witness ==
    /\ last.handler = "_provide_educational_fallback"
    /\ last.args.content_type = "paper"
    /\ last.args.subject = None
    /\ Len(last.result) = 1
    /\ last.result[1].is_fallback
    /\ last.result[1].title = <<"Research in ", "General Education", " Education">>

----------------------------------------------------------------------------
(* C22: ISBN validation removes hyphens and spaces and accepts exactly the *)
(* strings that are then 10 characters (digits, X allowed last) or 13      *)
(* digits; every other input raises ValidationError, and                   *)
(* get_book_details_by_isbn called with it raises OpenEduMCPError;         *)
(* validating a normalized ISBN returns it unchanged.                      *)

RECURSIVE Normalized(_)
Normalized(isbn) ==
    IF isbn = <<>> THEN <<>>
    ELSE IF Head(isbn) = "-" \/ Head(isbn) = " " THEN Normalized(Tail(isbn))
    ELSE <<Head(isbn)>> \o Normalized(Tail(isbn))

AllDigits(s) == \A i \in 1 .. Len(s) : s[i] \in Digits

WellFormedIsbn(n) ==
    \/ Len(n) = 13 /\ AllDigits(n)
    \/ Len(n) = 10 /\ AllDigits(SubSeq(n, 1, 9)) /\ (n[10] = "X" \/ n[10] \in Digits)

C22_WitnessNormalized ==
    /\ last.handler = "_validate_isbn"
    /\ last.args.isbn = <<"9", "7", "8", "-", "1", "-", "2", "3", "4", "-", "5", "6", "7", "8", "9", "-", "0">>
    /\ last.result = <<"9", "7", "8", "1", "2", "3", "4", "5", "6", "7", "8", "9", "0">>

----------------------------------------------------------------------------
(* C23, as stated: before a successful initialize_services, every content  *)
(* handler raises OpenEduMCPError("... tool not properly initialized") as  *)
(* its first step.                                                         *)

GuardMessage(api) ==
    CASE api = "open_library" -> <<"Open Library tool not properly initialized">>
      [] api = "wikipedia" -> <<"Wikipedia tool not properly initialized">>
      [] api = "dictionary" -> <<"Dictionary tool not properly initialized">>
      [] api = "arxiv" -> <<"arXiv tool not properly initialized">>

\* the call c was refused by the initialization guard of its handler
NotInitialized(c) ==
    /\ c.outcome = "raise"
    /\ c.exc = OpenEduMCPError(GuardMessage(HandlerApi(c.handler)))
    /\ c.cause = NoError
    /\ c.tool_calls = <<>>

\* arxiv_tool is the last assignment of initialize_services and nothing
\* after it can raise: from start-up it is set exactly when a run succeeded
InitializationSucceeded == arxiv_tool

C23_StepAsStated ==
    (CallStep /\ last'.handler \in ContentHandlers /\ ~InitializationSucceeded)
    => NotInitialized(last')

C23_RefusedBeforeSuccess == [][C23_StepAsStated]_vars

(* C23, amended: a content handler raises OpenEduMCPError("... tool not    *)
(* properly initialized") as its first step, before any parameter          *)
(* validation and without calling any tool, cache, rate limiter or usage   *)
(* service, exactly when the global of its own tool is unset (a book       *)
(* handler openlibrary_tool, an article handler wikipedia_tool, a word     *)
(* handler dictionary_tool, a paper handler arxiv_tool).  That is so for   *)
(* every handler until an initialize_services run has constructed that     *)
(* tool; a run that fails later leaves the tools it constructed set, and   *)
(* their handlers pass the guard although no run has succeeded.            *)

C23_Step ==
    (CallStep /\ last'.handler \in ContentHandlers)
    => IF ~ToolOf(HandlerApi(last'.handler))
       THEN NotInitialized(last') /\ UNCHANGED <<globals, services>>
       ELSE ~NotInitialized(last')

C23_GuardOnOwnTool == [][C23_Step]_vars

C23_Witness ==
    /\ last.handler = "search_educational_books"
    /\ last.args.query = <<>>
    /\ NotInitialized(last)
    /\ cache_service /\ rate_limiting_service /\ usage_service
    /\ ~openlibrary_tool

----------------------------------------------------------------------------
(* C25: initialize_services builds configuration, cache service, rate      *)
(* limiting service, usage service and then the four tools, in that order, *)
(* and a failure at any step is raised as OpenEduMCPError("Server          *)
(* initialization failed: ..."); so after any sequence of runs, failed     *)
(* ones included, whenever one of the four tool globals is set, all of     *)
(* cache_service, rate_limiting_service and usage_service are set.  (A run *)
(* cancelled while it awaits is interrupted, not failed: CancelledError    *)
(* passes the except clause; the globals assigned so far stay set.)        *)

\* the globals in the order of their assignments
BuildOrder ==
    <<config, cache_service, rate_limiting_service, usage_service,
      openlibrary_tool, wikipedia_tool, dictionary_tool, arxiv_tool>>

AnyToolSet == openlibrary_tool \/ wikipedia_tool \/ dictionary_tool \/ arxiv_tool

C25_ServicesBeforeTools ==
    /\ \A i \in 2 .. InitSteps : BuildOrder[i] => BuildOrder[i - 1]
    /\ AnyToolSet => (cache_service /\ rate_limiting_service /\ usage_service)
    /\ last.handler = "initialize_services" =>
          IF last.outcome = "return"
          THEN \A i \in 1 .. InitSteps : BuildOrder[i]
          ELSE \/ /\ last.exc.type = "OpenEduMCPError"
                  /\ IsPrefix(<<"Server initialization failed: ">>, last.exc.message)
               \/ /\ Cancelled(last)
                  /\ cache_service

C25_Witness ==
    /\ last.handler = "initialize_services"
    /\ last.outcome = "raise"
    /\ last.exc.type = "OpenEduMCPError"
    /\ openlibrary_tool /\ wikipedia_tool
    /\ ~dictionary_tool /\ ~arxiv_tool
    /\ cache_service /\ rate_limiting_service /\ usage_service

----------------------------------------------------------------------------
(* C27: get_server_status decides 'healthy' from the three services alone  *)
(* and not from the tools: after an initialize_services run that failed    *)
(* while constructing a tool, with the three services set, it returns      *)
(* status 'healthy' while the handlers of the unconstructed tools refuse   *)
(* every call as not initialized.                                          *)

C27_Step ==
    /\ (CallStep /\ last'.handler = "get_server_status" /\ last'.outcome = "return") =>
          ((last'.report.status = "healthy") <=> (ServicesSet /\ last'.args.failed = None))
    /\ (CallStep /\ last'.handler \in ContentHandlers /\ ServicesSet
           /\ ~ToolOf(HandlerApi(last'.handler))) =>
          NotInitialized(last')

C27_HealthyWithoutTools == [][C27_Step]_vars

\* initialize_services failed constructing the Wikipedia tool; the status
\* is 'healthy' and the word and article handlers cannot pass their guards
C27_Witness ==
    /\ last.handler = "get_server_status"
    /\ last.outcome = "return"
    /\ last.report.status = "healthy"
    /\ ServicesSet
    /\ openlibrary_tool
    /\ ~wikipedia_tool /\ ~dictionary_tool /\ ~arxiv_tool

----------------------------------------------------------------------------
(* C24: sse_event_generator checks for client disconnection before every   *)
(* ping; once a check observes the client disconnected, no further event   *)
(* is emitted and the generator finishes; so after the client disconnects  *)
(* at most one more ping is emitted (the one whose check preceded the      *)
(* disconnection), and under fairness of the loop the generator            *)
(* eventually terminates; while the client stays connected and no error,   *)
(* cancellation or close occurs, the generator does not finish and each    *)
(* round of the loop sends the next ping.                                  *)

\* the pings sent after the client dropped the connection
PingsAfterDisconnect ==
    { i \in stream.gone_at + 1 .. Len(stream.events) : stream.events[i].event = "ping" }

C24_Step ==
    \* a ping follows a check that found the client connected
    /\ (stream'.pc = "ping" /\ stream.pc # "ping") =>
          (stream.pc = "check" /\ stream.connected)
    /\ (Len(stream'.events) = Len(stream.events) + 1 /\ stream.pc \notin {"new", "check"}) =>
          (stream.pc = "ping" /\ stream'.events[Len(stream'.events)].event = "ping")
    \* a check that observes the disconnection ends the stream silently
    /\ (stream.pc = "check" /\ stream'.exit = "disconnected") =>
          /\ ~stream.connected
          /\ stream'.pc = "done"
          /\ stream'.events = stream.events
    \* a finished generator emits nothing more
    /\ (stream.pc = "done" /\ stream' # stream) =>
          (stream'.pc = "at_connected" /\ Len(stream'.events) = 1)
    \* the generator finishes for a reason only
    /\ (stream.pc # "done" /\ stream'.pc = "done") =>
          stream'.exit \in {"disconnected", "error", "cancelled", "closed"}

C24_DisconnectEndsStream ==
    /\ [][C24_Step]_vars
    /\ [](~stream.connected => Cardinality(PingsAfterDisconnect) <= 1)
    /\ (~stream.connected) ~> (stream.pc = "done")
    /\ \A k \in 0 .. MaxPings - 1 :
          (stream.pc = "check" /\ stream.connected /\ stream.loop_count = k)
          ~> (stream.loop_count = k + 1 \/ ~stream.connected \/ stream.exit # None)

\* the client left between a check and its ping: one ping more, then the
\* next check ended the stream
C24_Witness ==
    /\ ~stream.connected
    /\ stream.pc = "done"
    /\ stream.exit = "disconnected"
    /\ stream.loop_count = 2
    /\ stream.gone_at = 2
    /\ Len(stream.events) = 3
    /\ stream.events[3].event = "ping"

----------------------------------------------------------------------------
(* C28, as stated: cleanup_services never propagates an exception.         *)

C28_CleanupNeverRaises ==
    last.handler = "cleanup_services" => last.outcome = "return"

(* C28, amended: cleanup_services propagates no exception that is an       *)
(* instance of Exception; asyncio.CancelledError, raised when the task is  *)
(* cancelled while it awaits a close(), passes its except clause.  It      *)
(* closes the resources whose globals are set in the fixed order arXiv     *)
(* client, dictionary client, Wikipedia client, Open Library client, usage *)
(* service, cache service, and skips those whose globals are unset; if a   *)
(* close() raises or is cancelled, cleanup stops there and every resource  *)
(* later in the order is left unclosed.                                    *)

ClosingOrder == <<"arxiv", "dictionary", "wikipedia", "open_library", "usage", "cache">>

PlaceOf(r) == CHOOSE i \in 1 .. Len(ClosingOrder) : ClosingOrder[i] = r

\* the step is a run of cleanup_services
CleanupStep == last'.handler = "cleanup_services" /\ (last' # last \/ closed' # closed)

C28_Step ==
    CleanupStep =>
        LET c == last'
            cut == IF c.args.failed = None THEN Len(ClosingOrder) + 1
                   ELSE PlaceOf(c.args.failed)
            expected == SelectSeq(ClosingOrder, LAMBDA r : GlobalOf(r) /\ PlaceOf(r) < cut)
        IN
        /\ c.result = expected
        /\ closed' = closed \cup Elements(expected)
        /\ c.args.failed # None => GlobalOf(c.args.failed)
        /\ IF c.outcome = "raise"
           THEN c.exc = CancelledError /\ c.args.failed # None
           ELSE c.outcome = "return"
        /\ (c.args.failed # None /\ c.cause.type \in ExceptionClasses) => c.outcome = "return"

C28_CleanupOrder == [][C28_Step]_vars

\* the close() of the Wikipedia client raised: the two clients before it
\* are closed, the Open Library client and the two services stay open
C28_Witness ==
    /\ last.handler = "cleanup_services"
    /\ last.outcome = "return"
    /\ last.args.failed = "wikipedia"
    /\ last.cause.type = "ValueError"
    /\ last.result = <<"arxiv", "dictionary">>
    /\ openlibrary_tool /\ usage_service /\ cache_service
    /\ closed = {"arxiv", "dictionary"}

----------------------------------------------------------------------------
(* C29: cleanup_services leaves all service and tool globals unchanged:    *)
(* after it a content handler still passes its initialization guard and    *)
(* forwards the call to the tool whose client was closed,                  *)
(* get_server_status still queries the closed services, and a second       *)
(* cleanup_services run closes the same resources again.                   *)

C29_Step ==
    /\ CleanupStep =>
          UNCHANGED <<config, cache_service, rate_limiting_service, usage_service,
                      openlibrary_tool, wikipedia_tool, dictionary_tool, arxiv_tool>>
    /\ (CallStep /\ last'.handler \in ContentHandlers
           /\ HandlerApi(last'.handler) \in closed) =>
          (~NotInitialized(last') /\ Reached(last'))
    /\ (CallStep /\ last'.handler = "get_server_status"
           /\ {"cache", "usage"} \subseteq closed /\ last'.outcome = "return") =>
          \/ last'.report.status = "healthy"
          \/ /\ last'.args.failed # None
             /\ last'.report.message[1] = "Failed to get server status: "
    /\ (CleanupStep /\ last.handler = "cleanup_services"
           /\ last.args.failed = None /\ last'.args.failed = None) =>
          (last'.result = last.result /\ Elements(last'.result) \subseteq closed)

C29_GlobalsKept ==
    /\ [][C29_Step]_vars
    /\ [](\A r \in closed : GlobalOf(r))

\* a book search reaches the Open Library tool after its client was closed
C29_Witness ==
    /\ last.handler = "search_educational_books"
    /\ Reached(last)
    /\ "open_library" \in closed
    /\ openlibrary_tool

----------------------------------------------------------------------------
(* C26: in main the MCP server is started only after initialize_services   *)
(* has completed successfully, and the cleanup hook is registered only     *)
(* after that success and before the server starts; if initialization      *)
(* fails the server is never started, no cleanup hook is registered and    *)
(* the process exits with status 1; the 'server stopped' final step runs   *)
(* on every path.                                                          *)

Logged(step) == \E i \in 1 .. Len(process.log) : process.log[i] = step

InitializationFailed ==
    /\ last.handler = "initialize_services"
    /\ last.outcome = "raise"
    /\ last.exc.type = "OpenEduMCPError"

C26_MainOrder ==
    /\ Logged("mcp.run") =>
          /\ IsPrefix(<<"initialized", "atexit.register", "mcp.run">>, process.log)
          /\ openlibrary_tool /\ wikipedia_tool /\ dictionary_tool /\ arxiv_tool
          /\ ServicesSet
    /\ process.hook <=> Logged("atexit.register")
    /\ Logged("atexit.register") =>
          IsPrefix(<<"initialized", "atexit.register">>, process.log)
    /\ process.pc = "running" =>
          process.log = <<"initialized", "atexit.register", "mcp.run">>
    /\ InitializationFailed =>
          /\ process.pc \in {"failed", "stopped", "exited"}
          /\ ~Logged("mcp.run")
          /\ ~process.hook
          /\ process.pc \in {"stopped", "exited"} => process.status = 1
    /\ process.pc = "stopped" => process.log[Len(process.log)] = "stopped"
    /\ process.pc = "exited" =>
          /\ Len(process.log) >= 2
          /\ SubSeq(process.log, Len(process.log) - 1, Len(process.log)) = <<"stopped", "exit">>

\* the Wikipedia tool could not be constructed: the process has exited with
\* status 1, having neither registered the cleanup nor started the server
C26_Witness ==
    /\ process.pc = "exited"
    /\ process.status = 1
    /\ process.log = <<"stopped", "exit">>
    /\ InitializationFailed
    /\ openlibrary_tool /\ ~wikipedia_tool
    /\ closed = {}

====
